---- MODULE Spec2Model ----
(***************************************************************************)
(* State-machine model of opencode-todo-reminder.                          *)
(*                                                                         *)
(* The per-todo engine (src/unnamed/part_002, lines 411-848) keeps one     *)
(* SessionState object per session in the map sessionStates.  Closures     *)
(* (timer callbacks, suspended maybeInject calls) hold references to       *)
(* SessionState objects, so the objects live in a heap and the map holds   *)
(* object ids: an object that was deleted from the map can still be read   *)
(* and written by a suspended evaluation.                                  *)
(*                                                                         *)
(* Time.  Every timestamp is kept as an offset from the current instant:   *)
(* Date.now() is offset 0, a past instant is negative, a timer's due time  *)
(* is positive.  When time passes (Tick) every stored offset goes down by  *)
(* one.  The code reads a past timestamp only in                           *)
(* now - lastInjectAtMs < cooldownMs, which cannot tell apart instants     *)
(* cooldownMs or more ago: past offsets stop at -cooldownMs (Epoch), which *)
(* is also what the initial lastInjectAtMs = 0 (1970) amounts to.  The     *)
(* time unit is idleDelayMs of the chosen configuration.                   *)
(***************************************************************************)
EXTENDS Integers, Sequences, FiniteSets, Bags, TLC

VARIABLES
    config,         \* the loaded configuration (constant after Init)
    heap,           \* object id -> SessionState
    sessionStates,  \* sessionID -> object id            (the Map)
    timers,         \* live setTimeout handles of the runtime
    evals,          \* bag of maybeInject calls suspended at an await
    world,          \* sessionID -> the host's todo list and whether its
                    \* todo.updated event is still to be delivered
    obs,            \* sessionID -> what an observer of the session has seen
    injectCounts,   \* the Maps and the Set of the snapshot-counter engine
    lastSnapshots,  \* (src/unnamed/part_002, lines 40-272), which keeps
    seenUserMsgs,   \* its timers in the variable timers and its suspended
    abortedSessions \* inject calls in evals; the other engines have none

simple == <<injectCounts, lastSnapshots, seenUserMsgs, abortedSessions>>

vars == <<config, heap, sessionStates, timers, evals, world, obs, simple>>

-----------------------------------------------------------------------------
(* Bounds of the model *)

\* Delayed evaluations that may be suspended at an await at the same time.
MaxInFlight == 1

\* The same, where overlapping evaluations are studied.
MaxOverlap == 2

-----------------------------------------------------------------------------
(* Inputs *)

\* The sessions the host has (chosen by the initial state).
Sessions == DOMAIN world

OneSession == {"s1"}

Statuses == {"pending", "completed"}

\* Two todos in list order: a has an id, b has none (its key is its content).
TodoA(st) == [id |-> "a", content |-> "task a", status |-> st]
TodoB(st) == [id |-> "", content |-> "task b", status |-> st]

TodoLists ==
    {<<>>}
    \cup {<<TodoA(x)>> : x \in Statuses}
    \cup {<<TodoA(x), TodoB(y)>> : x \in Statuses, y \in Statuses}

\* The lists of a session whose single todo a is pending or gone.
PendingOrNone == {<<>>, <<TodoA("pending")>>}

\* The lists of a session with the single todo a.
ShortTodoLists == {<<>>} \cup {<<TodoA(x)>> : x \in Statuses}

Roles == {"user", "assistant"}
Agents == {"undefined", "plan"}
Models == {"undefined", "m1"}

\* What client.session.messages({limit: 1}) can answer: it throws, it has
\* no message, or it has the last message with its role, its error name,
\* its finish reason and whether it has a completion time.
MessageOutcomes ==
    {[answer |-> a, role |-> "", error |-> "", finish |-> "", completed |-> FALSE] :
        a \in {"throw", "empty"}}
    \cup [answer : {"message"},
          role : Roles,
          error : {"", "MessageAbortedError"},
          finish : {"stop", "abort"},
          completed : BOOLEAN]

-----------------------------------------------------------------------------
(* Maps (JS Map objects) as functions with a finite domain *)

EmptyMap == [k \in {} |-> 0]

\* The Maps and the Set of the snapshot-counter engine after construction.
NoCounters ==
    /\ injectCounts = EmptyMap
    /\ lastSnapshots = EmptyMap
    /\ seenUserMsgs = EmptyMap
    /\ abortedSessions = {}

Put(f, k, v) == [x \in (DOMAIN f) \cup {k} |-> IF x = k THEN v ELSE f[x]]

Remove(f, ks) == [x \in (DOMAIN f) \ ks |-> f[x]]

Get0(f, k) == IF k \in DOMAIN f THEN f[k] ELSE 0

-----------------------------------------------------------------------------
(* Pure helpers *)

getTodoKey(todo) == IF todo.id # "" THEN todo.id ELSE todo.content

\* (variant) every todo counts as pending, whatever its status
IsListed(todo) == todo.status = todo.status

IsTrigger(todo) == todo.status \in config.triggerStatuses

\* (variant) the todos are collected from the last to the first
filterBackwards(todos) ==
    LET kept == SelectSeq(todos, IsTrigger)
    IN  [i \in 1 .. Len(kept) |-> kept[Len(kept) + 1 - i]]

filterPendingTodos(todos) == SelectSeq(todos, IsTrigger)

\* String(n) for a number n >= 0: its decimal digits.
RECURSIVE String(_)
String(n) ==
    LET digit == <<"0", "1", "2", "3", "4", "5", "6", "7", "8", "9">>[(n % 10) + 1]
    IN  IF n < 10 THEN <<digit>> ELSE String(n \div 10) \o <<digit>>

IsDone(todo) == todo.status = "completed" \/ todo.status = "cancelled"

\* The lines of the reminder, each a sequence of chunks of text.
buildPromptText(pendingTodos, allTodos) ==
    LET completedCount == Len(SelectSeq(allTodos, IsDone))
        remaining == Len(pendingTodos)
        lines == <<<<"Incomplete tasks remain in your todo list.">>,
                   <<"Continue working on the next pending task now; do not ask for permission; mark tasks complete when done.">>>>
    IN  IF config.includeProgressInPrompt /\ Len(allTodos) > 0
        THEN lines \o <<<<>>,
                         <<"Status: ">> \o String(completedCount) \o <<"/">>
                             \o String(Len(allTodos)) \o <<" completed, ">>
                             \o String(remaining) \o <<" remaining.">>>>
        ELSE lines

\* Offset of an instant cooldownMs or more before now, such as time 0.
Epoch == 0 - config.cooldownMs

\* An offset one time unit later.
Older(t) == IF t - 1 < Epoch THEN Epoch ELSE t - 1

createSessionState ==
    [hasPending |-> FALSE,
     lastInjectAtMs |-> Epoch,
     pendingInjectTimer |-> 0,
     perTodoInjectCount |-> EmptyMap,
     loopProtectionTriggered |-> FALSE,
     lastUserAgent |-> "undefined",
     lastUserModel |-> "undefined"]

-----------------------------------------------------------------------------
(* The engine's memory: heap, map and the runtime's timer table.  The      *)
(* helpers below take and return such a record, so that a handler's calls  *)
(* compose in program order.                                               *)

ObjIds == 1 .. (Cardinality(Sessions) + Cardinality(DOMAIN heap) + 1)

Mem == [heap |-> heap, map |-> sessionStates, timers |-> timers]

FreshId(m) ==
    CHOOSE i \in ObjIds \ DOMAIN m.heap :
        \A j \in ObjIds \ DOMAIN m.heap : i <= j

getState(m, s) ==
    IF s \in DOMAIN m.map
    THEN m
    ELSE LET i == FreshId(m)
         IN  [m EXCEPT !.heap = Put(m.heap, i, createSessionState),
                       !.map = Put(m.map, s, i)]

\* (variant) the handle is forgotten but clearTimeout is not called
forgetPendingTimer(m, s) ==
    IF s \notin DOMAIN m.map
    THEN m
    ELSE [m EXCEPT !.heap[m.map[s]].pendingInjectTimer = 0]

cancelPendingTimer(m, s) ==
    IF s \notin DOMAIN m.map
    THEN m
    ELSE LET o == m.map[s]
             h == m.heap[o].pendingInjectTimer
         IN  IF h # 0
             THEN [m EXCEPT !.timers = {t \in m.timers : ~(t.sid = s /\ t.h = h)},
                            !.heap[o].pendingInjectTimer = 0]
             ELSE m

\* (variant) the entry is deleted without cancelling its timer
cleanupKeepsTimer(m, s) ==
    [m EXCEPT !.map = Remove(m.map, {s})]

\* (variant) the whole map is cleared, not the entry of s only
cleanupEverySession(m, s) ==
    LET m1 == cancelPendingTimer(m, s)
    IN  [m1 EXCEPT !.map = EmptyMap]

cleanupSession(m, s) ==
    LET m1 == cancelPendingTimer(m, s)
    IN  [m1 EXCEPT !.map = Remove(m1.map, {s})]

\* (variant) the new timer is set without cancelling the pending one
scheduleBesideOld(m, s, h, due) ==
    LET m1 == getState(m, s)
        o == m1.map[s]
    IN  [m1 EXCEPT !.heap[o].pendingInjectTimer = h,
                   !.timers = m1.timers \cup {[sid |-> s, h |-> h, st |-> o, due |-> due]}]

\* h is the new handle setTimeout returns, due the time its callback runs.
scheduleInjection(m, s, h, due) ==
    LET m1 == getState(m, s)
        o == m1.map[s]
        m2 == cancelPendingTimer(m1, s)
    IN  [m2 EXCEPT !.heap[o].pendingInjectTimer = h,
                   !.timers = m2.timers \cup {[sid |-> s, h |-> h, st |-> o, due |-> due]}]

PendingKeys(todos) ==
    {getTodoKey(todos[i]) : i \in {j \in DOMAIN todos : IsTrigger(todos[j])}}

\* (variant) the counters of todos that are no longer pending are kept
resetKeepsCounters(m, s, todos) ==
    IF s \notin DOMAIN m.map
    THEN m
    ELSE LET o == m.map[s]
             st == m.heap[o]
             hasUnblockedTodo ==
                 \E i \in DOMAIN todos :
                     /\ IsTrigger(todos[i])
                     /\ Get0(st.perTodoInjectCount, getTodoKey(todos[i]))
                            < config.maxAutoSubmitsPerTodo
         IN  [m EXCEPT !.heap[o].loopProtectionTriggered =
                           IF st.loopProtectionTriggered /\ hasUnblockedTodo
                           THEN FALSE
                           ELSE st.loopProtectionTriggered]

resetCompletedTodoCounters(m, s, todos) ==
    IF s \notin DOMAIN m.map
    THEN m
    ELSE LET o == m.map[s]
             st == m.heap[o]
             counts == Remove(st.perTodoInjectCount,
                              (DOMAIN st.perTodoInjectCount) \ PendingKeys(todos))
             hasUnblockedTodo ==
                 \E i \in DOMAIN todos :
                     /\ IsTrigger(todos[i])
                     /\ Get0(counts, getTodoKey(todos[i])) < config.maxAutoSubmitsPerTodo
         IN  [m EXCEPT !.heap[o].perTodoInjectCount = counts,
                       !.heap[o].loopProtectionTriggered =
                           IF st.loopProtectionTriggered /\ hasUnblockedTodo
                           THEN FALSE
                           ELSE st.loopProtectionTriggered]

\* The handle setTimeout returns: one no live timer of the session has.
FreshHandle(s) ==
    LET used == {t.h : t \in {u \in timers : u.sid = s}}
    IN  CHOOSE h \in 1 .. (Cardinality(used) + 1) : h \notin used

\* Bags of suspended calls.
One(e) == SetToBag({e})

Swap(evs, e, f) == (evs (-) One(e)) (+) One(f)

\* Objects no closure and no map entry refers to are garbage.
Live(m, evs) ==
    {m.map[s] : s \in DOMAIN m.map}
    \cup {t.st : t \in m.timers}
    \cup {e.st : e \in BagToSet(evs)}

\* Object ids are names only.  After a handler ran, the objects in the map
\* are renamed to the lowest ids (in the order of the ids) and the other
\* live objects follow, so that states differing in names only coincide.
NewName(m, evs, o) ==
    LET inMap == {m.map[s] : s \in DOMAIN m.map}
        before == {p \in Live(m, evs) : \/ p \in inMap /\ o \notin inMap
                                        \/ (p \in inMap <=> o \in inMap) /\ p < o}
    IN  Cardinality(before) + 1

\* What is kept of object o.  An object deleted from the map is reachable
\* from suspended maybeInject calls only.  Such a call assigns hasPending
\* (line 556) and loopProtectionTriggered (line 593) and never reads them
\* again, and once it passed the cooldown and limit checks it reads only
\* lastUserAgent and lastUserModel: fields nothing can read any more are
\* set to their initial values.
Content(m, evs, o) ==
    IF o \in {m.map[s] : s \in DOMAIN m.map}
    THEN m.heap[o]
    ELSE IF \E e \in BagToSet(evs) : e.st = o /\ e.pc \in {"messages", "todos"}
    THEN [m.heap[o] EXCEPT !.hasPending = FALSE,
                           !.loopProtectionTriggered = FALSE]
    ELSE [createSessionState EXCEPT !.lastUserAgent = m.heap[o].lastUserAgent,
                                    !.lastUserModel = m.heap[o].lastUserModel]

Renamed(m, evs) ==
    LET live == Live(m, evs)
        old(n) == CHOOSE o \in live : NewName(m, evs, o) = n
    IN  [heap |-> [n \in 1 .. Cardinality(live) |-> Content(m, evs, old(n))],
         map |-> [s \in DOMAIN m.map |-> NewName(m, evs, m.map[s])],
         timers |-> {[t EXCEPT !.st = NewName(m, evs, t.st)] : t \in m.timers},
         evals |-> BagOfAll(LAMBDA e : [e EXCEPT !.st = NewName(m, evs, e.st)], evs)]

\* The memory m and the suspended calls evs become the next state.
Commit(m, evs) ==
    \E mem \in {m}, calls \in {evs} :
        \E next \in {Renamed(mem, calls)} :
            /\ heap' = next.heap
            /\ sessionStates' = next.map
            /\ timers' = next.timers
            /\ evals' = next.evals

-----------------------------------------------------------------------------
(* What an observer of session s records (not program state), for the     *)
(* sessions in DOMAIN obs:                                                  *)
(*   seenPending     the engine was shown a list of s with a pending todo  *)
(*   lastEvalAt      when the last evaluation whose reminder prompt was    *)
(*                   delivered had read the clock (line 566)               *)
(*   lastReminderAt  when client.session.prompt was last called with a     *)
(*                   reminder, unless that call failed                     *)
(*   quiet           a user message (in src/src/plugin.ts a part update    *)
(*                   too) cancelled a live timer of s and nothing          *)
(*                   scheduled an evaluation of s since                    *)
(*   stuck           the key of the todo the last paused notice named, if  *)
(*                   no todo.updated or session.deleted event for s was    *)
(*                   handled since ("" otherwise)                          *)
(*   noticed         the key of the todo the last paused notice named, if  *)
(*                   every list the engine was shown since had it pending  *)
(*                   and no session.deleted event for s was handled since  *)
(*                   ("" otherwise)                                        *)
(*   outcome         what became of an evaluation of s at this instant,    *)
(*                   since the last session.idle event of s: "skipped"     *)
(*                   by the last message, "failed" by a collaborator that  *)
(*                   threw, "cancelled" by the user, "disabled" by the     *)
(*                   configuration, "deferred" by the cooldown,            *)
(*                   "unfetched" by a todo query that threw or answered    *)
(*                   no list, "interrupted" by a part update that          *)
(*                   cancelled its timer ("" if none of these)             *)
(*   agent, model    those of the last user message of s that named them,  *)
(*                   "undefined" if there was none since s was created     *)
(* and, where the observer watches the todo a (InitStatuses):              *)
(*   status          the status of a in the last list the engine was shown *)
(*                   ("" if a was not in it, or no list was shown)         *)
(*   counted         the reminders attributed to a since the engine was    *)
(*                   last shown a list in which the status of a differed   *)
(*                   from the one in the list shown before (counted up to  *)
(*                   the cap)                                              *)
(*   removed         a session.deleted event of s was handled and no       *)
(*                   session.idle event of s has set a timer since         *)
(*   spoken          a user message of s was handled and no session.idle   *)
(*                   event of s since                                      *)
(*   deferred        the cooldown ended an evaluation of s and no          *)
(*                   session.idle event of s was handled since             *)
(* and, where the observer watches the triggers (InitPlugin):              *)
(*   burst           the triggers ("idle", "text") that set a timer of s   *)
(*                   since s last had no live timer                        *)

Unobserved ==
    [seenPending |-> FALSE,
     lastEvalAt |-> Epoch,
     lastReminderAt |-> Epoch,
     quiet |-> FALSE,
     stuck |-> "",
     noticed |-> "",
     outcome |-> "",
     agent |-> "undefined",
     model |-> "undefined"]

HasPending(todos) ==
    \E i \in DOMAIN todos : todos[i].status \in config.triggerStatuses

\* The engine is shown a list of s: what the observer of the todo a records.
WatchStatus(o, s, todos) ==
    LET at == {i \in DOMAIN todos : getTodoKey(todos[i]) = "a"}
        status == IF at = {} THEN "" ELSE todos[CHOOSE i \in at : TRUE].status
    IN  IF "counted" \notin DOMAIN o[s]
        THEN o
        ELSE [o EXCEPT ![s].status = status,
                       ![s].counted = IF status # o[s].status THEN 0 ELSE @]

\* The observer that watches the triggers records that one set a timer of s.
WatchBurst(o, s, trigger) ==
    IF s \notin DOMAIN o \/ "burst" \notin DOMAIN o[s]
    THEN o
    ELSE [o EXCEPT ![s].burst = (IF \E t \in timers : t.sid = s THEN @ ELSE {})
                                    \cup {trigger}]

\* The observer that watches records value in the given field.
Watch(o, s, field, value) ==
    IF s \notin DOMAIN o \/ field \notin DOMAIN o[s]
    THEN o
    ELSE [o EXCEPT ![s][field] = value]

\* A reminder of s is attributed to the todo with the given key.
WatchCount(o, s, key) ==
    IF s \notin DOMAIN o \/ "counted" \notin DOMAIN o[s] \/ key # "a"
    THEN o
    ELSE [o EXCEPT ![s].counted =
                       IF @ < config.maxAutoSubmitsPerTodo THEN @ + 1 ELSE @]

\* The engine is shown a todo list of s (in an event or a fetched snapshot).
SeesTodos(o, s, todos) ==
    IF s \notin DOMAIN o
    THEN o
    ELSE WatchStatus([o EXCEPT ![s].seenPending = @ \/ HasPending(todos),
                               ![s].noticed = IF @ \in PendingKeys(todos) THEN @ ELSE ""],
                     s, todos)

\* The reminder of an evaluation of s that read the clock at t was delivered.
RecordInjection(o, s, t) ==
    IF s \notin DOMAIN o
    THEN o
    ELSE [o EXCEPT ![s].lastEvalAt = t]

\* The reminder prompt of s threw.
RecordFailure(o, s) ==
    IF s \notin DOMAIN o
    THEN o
    ELSE [o EXCEPT ![s].lastReminderAt = Epoch]

\* client.session.prompt is called for s (key: the todo a paused notice names).
RecordPrompt(o, s, kind, key) ==
    IF s \notin DOMAIN o
    THEN o
    ELSE WatchCount([o EXCEPT ![s].lastReminderAt = IF kind = "reminder" THEN 0 ELSE @,
                              ![s].stuck = IF kind = "paused" THEN key ELSE @,
                              ![s].noticed = IF kind = "paused" THEN key ELSE @],
                    s, IF kind = "reminder" THEN key ELSE "")

\* A todo.updated or session.deleted event of s is handled.
RecordListEvent(o, s) ==
    IF s \notin DOMAIN o
    THEN o
    ELSE [o EXCEPT ![s].stuck = ""]

\* A user message cancelled a timer of s (q), a session.idle event of s is
\* handled (~q).
RecordQuiet(o, s, q) ==
    IF s \notin DOMAIN o
    THEN o
    ELSE [o EXCEPT ![s].quiet = q]

\* An evaluation of s met with what (see outcome).
RecordOutcome(o, s, what) ==
    IF s \notin DOMAIN o
    THEN o
    ELSE IF what = "deferred"
    THEN Watch([o EXCEPT ![s].outcome = what], s, "deferred", TRUE)
    ELSE [o EXCEPT ![s].outcome = what]

\* A user message of s is handled.
RecordUser(o, s, agent, model) ==
    IF s \notin DOMAIN o
    THEN o
    ELSE Watch([o EXCEPT ![s].agent = IF agent # "undefined" THEN agent ELSE @,
                         ![s].model = IF model # "undefined" THEN model ELSE @],
               s, "spoken", TRUE)

\* The session s is removed: what its user said is history.
RecordRemoval(o, s) ==
    IF s \notin DOMAIN o
    THEN o
    ELSE Watch([o EXCEPT ![s].agent = "undefined", ![s].model = "undefined",
                         ![s].noticed = ""],
               s, "removed", TRUE)

-----------------------------------------------------------------------------
(* Initial state: the plugin has just been constructed. *)

Init ==
    \* Configurations loadConfig may return (time unit: idleDelayMs).
    /\ config \in
         [enabled : {TRUE},
          triggerStatuses : {{"pending", "in_progress", "open"}},
          maxAutoSubmitsPerTodo : {2},
          idleDelayMs : {1},
          cooldownMs : {2},
          useToasts : {TRUE},
          includeProgressInPrompt : {FALSE}]
    /\ NoCounters
    /\ heap = EmptyMap
    /\ sessionStates = EmptyMap
    /\ timers = {}
    /\ evals = EmptyBag
    /\ world = [s \in OneSession |-> [todos |-> <<>>, unsent |-> FALSE]]
    /\ obs = [s \in OneSession |-> Unobserved]

\* The same where the engine may be disabled.
InitAnyConfig ==
    \* The same configurations, and those with enabled = false.
    /\ config \in
         [enabled : BOOLEAN,
          triggerStatuses : {{"pending", "in_progress", "open"}},
          maxAutoSubmitsPerTodo : {2},
          idleDelayMs : {1},
          cooldownMs : {2},
          useToasts : {TRUE},
          includeProgressInPrompt : {FALSE}]
    /\ NoCounters
    /\ heap = EmptyMap
    /\ sessionStates = EmptyMap
    /\ timers = {}
    /\ evals = EmptyBag
    /\ world = [s \in OneSession |-> [todos |-> <<>>, unsent |-> FALSE]]
    /\ obs = [s \in OneSession |-> Unobserved]

\* One observed session, the progress line configured or not.
InitLive ==
    \* Configurations with and without the progress line in the reminder.
    /\ config \in
         [enabled : {TRUE},
          triggerStatuses : {{"pending", "in_progress", "open"}},
          maxAutoSubmitsPerTodo : {1},
          idleDelayMs : {1},
          cooldownMs : {2},
          useToasts : {FALSE},
          includeProgressInPrompt : BOOLEAN]
    /\ NoCounters
    /\ heap = EmptyMap
    /\ sessionStates = EmptyMap
    /\ timers = {}
    /\ evals = EmptyBag
    /\ world = [s \in OneSession |-> [todos |-> <<>>, unsent |-> FALSE]]
    /\ obs = [s \in OneSession |-> Unobserved]

\* The same with two sessions, which nobody observes.
InitTwo ==
    \* A configuration with the shortest cooldown and the lowest cap, and
    \* without toasts.
    /\ config \in
         [enabled : {TRUE},
          triggerStatuses : {{"pending", "in_progress", "open"}},
          maxAutoSubmitsPerTodo : {1},
          idleDelayMs : {1},
          cooldownMs : {1},
          useToasts : {FALSE},
          includeProgressInPrompt : {FALSE}]
    /\ NoCounters
    /\ heap = EmptyMap
    /\ sessionStates = EmptyMap
    /\ timers = {}
    /\ evals = EmptyBag
    /\ world = [s \in {"s1", "s2"} |-> [todos |-> <<>>, unsent |-> FALSE]]
    /\ obs = EmptyMap

-----------------------------------------------------------------------------
(* The host.  The todo tool writes the list of a session and publishes a    *)
(* todo.updated event carrying it; the engine handles the event before     *)
(* the next write of that list and before the clock moves on, but a        *)
(* suspended evaluation may be resumed with the fetched list first.        *)

Todos(s) == world[s].todos

TodoWrite(s, todos) ==
    /\ ~world[s].unsent
    /\ world' = [world EXCEPT ![s] = [todos |-> todos, unsent |-> TRUE]]
    /\ UNCHANGED <<config, simple, heap, sessionStates, timers, evals, obs>>

-----------------------------------------------------------------------------
(* Event handlers *)

\* event.type === "todo.updated", carrying the host's current list
TodoUpdated(s) ==
    LET todos == Todos(s)
        m1 == getState(Mem, s)
        o == m1.map[s]
        hasPending == \E i \in DOMAIN todos : IsTrigger(todos[i])
        m2 == [m1 EXCEPT !.heap[o].hasPending = hasPending]
        m3 == resetCompletedTodoCounters(m2, s, todos)
        m4 == IF ~hasPending THEN cleanupSession(m3, s) ELSE m3
    IN  /\ world[s].unsent
        /\ world' = [world EXCEPT ![s].unsent = FALSE]
        /\ Commit(m4, evals)
        /\ obs' = RecordListEvent(SeesTodos(obs, s, todos), s)
        /\ UNCHANGED <<config, simple>>

\* event.type === "session.idle"
SessionIdle(s) ==
    LET m1 == getState(Mem, s)
        state == m1.heap[m1.map[s]]
        seen == Watch(Watch(RecordOutcome(RecordQuiet(obs, s, FALSE), s, ""),
                            s, "spoken", FALSE),
                      s, "deferred", FALSE)
    IN  /\ IF state.hasPending
           THEN Commit(scheduleInjection(m1, s, FreshHandle(s), 0 + config.idleDelayMs),
                       evals)
           ELSE Commit(m1, evals)
        /\ obs' = IF state.hasPending
                  THEN WatchBurst(Watch(seen, s, "removed", FALSE), s, "idle")
                  ELSE seen
        /\ UNCHANGED <<config, simple, world>>

\* (variant) a message of any role cancels the pending timer
MessageUpdatedAnyRole(s, role, agent, model) ==
    LET m1 == getState(Mem, s)
        m2 == cancelPendingTimer(m1, s)
    IN  /\ Commit(m2, evals)
        /\ obs' = IF m2.timers # m1.timers THEN RecordQuiet(obs, s, TRUE) ELSE obs
        /\ UNCHANGED <<config, simple, world>>

\* event.type === "message.updated"
MessageUpdated(s, role, agent, model) ==
    LET m1 == getState(Mem, s)
        o == m1.map[s]
        m2 == cancelPendingTimer(m1, s)
        m3 == [m2 EXCEPT !.heap[o].lastUserAgent =
                             IF agent # "undefined" THEN agent ELSE @,
                         !.heap[o].lastUserModel =
                             IF model # "undefined" THEN model ELSE @]
        seen == IF role = "user" THEN RecordUser(obs, s, agent, model) ELSE obs
    IN  /\ Commit(IF role = "user" THEN m3 ELSE m1, evals)
        /\ obs' = IF role = "user" /\ m2.timers # m1.timers
                  THEN RecordQuiet(seen, s, TRUE)
                  ELSE seen
        /\ UNCHANGED <<config, simple, world>>

\* event.type === "message.part.updated"
MessagePartUpdated(s) ==
    /\ s \in Sessions
    /\ UNCHANGED vars

\* event.type === "session.deleted"
SessionDeleted(s) ==
    /\ Commit(cleanupSession(Mem, s), evals)
    /\ obs' = RecordRemoval(RecordListEvent(obs, s), s)
    /\ UNCHANGED <<config, simple, world>>

-----------------------------------------------------------------------------
(* The delayed evaluation: the timer callback and maybeInject, one action  *)
(* per stretch of code between two awaits.                                 *)

\* (variant) no cooldown
CooldownNever(state, t) == state # state

CooldownActive(state, t) == t - state.lastInjectAtMs < config.cooldownMs

\* (variant) the limit is reached one reminder later
LimitExceeded(currentCount) == currentCount > config.maxAutoSubmitsPerTodo

LimitReached(currentCount) == currentCount >= config.maxAutoSubmitsPerTodo

\* (variant) only a last message from the user stops the evaluation
SkipsOnUserOnly(lastMessage) ==
    lastMessage.answer = "message" /\ lastMessage.role = "user"

SkipsReminder(lastMessage) ==
    /\ lastMessage.answer = "message"
    /\ \/ lastMessage.role = "user"
       \/ /\ lastMessage.role = "assistant"
          /\ \/ lastMessage.error = "MessageAbortedError"
             \/ lastMessage.finish = "abort"
             \/ ~lastMessage.completed

\* (variant) the callback does not look at config.enabled
TimerFireAlways(t, cap) ==
    /\ t \in timers
    /\ 0 >= t.due
    /\ BagCardinality(evals) < cap
    /\ LET m1 == [Mem EXCEPT !.timers = timers \ {t},
                             !.heap[t.st].pendingInjectTimer = 0]
           m2 == getState(m1, t.sid)
           o == m2.map[t.sid]
           e == [sid |-> t.sid, st |-> o, pc |-> "messages", now |-> Epoch,
                 agent |-> "undefined", model |-> "undefined", text |-> <<>>]
       IN  IF m2.heap[o].loopProtectionTriggered
           THEN Commit(m2, evals)
           ELSE Commit(m2, evals (+) One(e))
    /\ UNCHANGED <<config, simple, world, obs>>

\* (variant) the callback returns without calling maybeInject
TimerFireDrops(t, cap) ==
    /\ t \in timers
    /\ 0 >= t.due
    /\ BagCardinality(evals) < cap
    /\ Commit([Mem EXCEPT !.timers = timers \ {t},
                           !.heap[t.st].pendingInjectTimer = 0], evals)
    /\ UNCHANGED <<config, simple, world, obs>>

\* The setTimeout callback up to maybeInject's first await.
\* At most cap calls are suspended at a time.
TimerFire(t, cap) ==
    /\ t \in timers
    /\ 0 >= t.due
    /\ BagCardinality(evals) < cap
    /\ LET m1 == [Mem EXCEPT !.timers = timers \ {t},
                             !.heap[t.st].pendingInjectTimer = 0]
           m2 == getState(m1, t.sid)
           o == m2.map[t.sid]
           e == [sid |-> t.sid, st |-> o, pc |-> "messages", now |-> Epoch,
                 agent |-> "undefined", model |-> "undefined", text |-> <<>>]
       IN  IF ~config.enabled
           THEN Commit(m1, evals)
           ELSE IF m2.heap[o].loopProtectionTriggered
                THEN Commit(m2, evals)
                ELSE Commit(m2, evals (+) One(e))
    /\ obs' = IF ~config.enabled THEN RecordOutcome(obs, t.sid, "disabled") ELSE obs
    /\ UNCHANGED <<config, simple, world>>

\* client.session.messages answered.
EvalMessages(e, lastMessage) ==
    /\ BagIn(e, evals)
    /\ e.pc = "messages"
    /\ IF SkipsReminder(lastMessage)
       THEN /\ Commit(Mem, evals (-) One(e))
            /\ obs' = RecordOutcome(obs, e.sid, "skipped")
       ELSE /\ Commit(Mem, Swap(evals, e, [e EXCEPT !.pc = "todos"]))
            /\ obs' = IF lastMessage.answer = "throw"
                      THEN RecordOutcome(obs, e.sid, "failed")
                      ELSE obs
    /\ UNCHANGED <<config, simple, world>>

\* (variant) a todo query that fails counts as an empty list
EvalTodosTakesFailureForEmpty(e, ok) ==
    /\ BagIn(e, evals)
    /\ e.pc = "todos"
    /\ LET rest == evals (-) One(e)
           todos == Todos(e.sid)
           pendingTodos == filterPendingTodos(todos)
           m1 == [Mem EXCEPT !.heap[e.st].hasPending = Len(pendingTodos) > 0]
           state == m1.heap[e.st]
           todoKey == getTodoKey(pendingTodos[1])
           currentCount == Get0(state.perTodoInjectCount, todoKey)
           m2 == [m1 EXCEPT !.heap[e.st].loopProtectionTriggered = TRUE]
           m3 == [m1 EXCEPT !.heap[e.st].perTodoInjectCount =
                                Put(@, todoKey, currentCount + 1)]
           seen == SeesTodos(obs, e.sid, todos)
       IN  IF ~ok
           THEN /\ Commit(cleanupSession([Mem EXCEPT !.heap[e.st].hasPending = FALSE], e.sid),
                       rest)
                /\ obs' = RecordOutcome(obs, e.sid, "unfetched")
           ELSE IF Len(pendingTodos) = 0
           THEN Commit(cleanupSession(m1, e.sid), rest) /\ obs' = seen
           ELSE IF CooldownActive(state, 0)
           THEN Commit(m1, rest) /\ obs' = RecordOutcome(seen, e.sid, "deferred")
           ELSE IF LimitReached(currentCount)
           THEN /\ Commit(m2, rest (+) One([e EXCEPT !.pc = "blocked",
                                                     !.agent = state.lastUserAgent,
                                                     !.model = state.lastUserModel]))
                /\ obs' = RecordPrompt(seen, e.sid, "paused", todoKey)
           ELSE IF config.useToasts
           THEN /\ Commit(m3, rest (+) One([e EXCEPT !.pc = "toast", !.now = 0,
                                                     !.text = buildPromptText(pendingTodos, todos)]))
                /\ obs' = WatchCount(seen, e.sid, todoKey)
           ELSE /\ Commit(m3, rest (+) One([e EXCEPT !.pc = "prompt", !.now = 0,
                                                     !.agent = state.lastUserAgent,
                                                     !.model = state.lastUserModel,
                                                     !.text = buildPromptText(pendingTodos, todos)]))
                /\ obs' = RecordPrompt(seen, e.sid, "reminder", todoKey)
    /\ UNCHANGED <<config, simple, world>>

\* (variant) an evaluation the cooldown ends sets a timer to try again
EvalTodosRetries(e, ok) ==
    /\ BagIn(e, evals)
    /\ e.pc = "todos"
    /\ LET rest == evals (-) One(e)
           todos == Todos(e.sid)
           pendingTodos == filterPendingTodos(todos)
           m1 == [Mem EXCEPT !.heap[e.st].hasPending = Len(pendingTodos) > 0]
           state == m1.heap[e.st]
           todoKey == getTodoKey(pendingTodos[1])
           currentCount == Get0(state.perTodoInjectCount, todoKey)
           m2 == [m1 EXCEPT !.heap[e.st].loopProtectionTriggered = TRUE]
           m3 == [m1 EXCEPT !.heap[e.st].perTodoInjectCount =
                                Put(@, todoKey, currentCount + 1)]
           seen == SeesTodos(obs, e.sid, todos)
       IN  IF ~ok
           THEN Commit(Mem, rest) /\ obs' = RecordOutcome(obs, e.sid, "unfetched")
           ELSE IF Len(pendingTodos) = 0
           THEN Commit(cleanupSession(m1, e.sid), rest) /\ obs' = seen
           ELSE IF CooldownActive(state, 0)
           THEN /\ Commit(scheduleInjection(m1, e.sid, FreshHandle(e.sid),
                                             0 + config.cooldownMs), rest)
                /\ obs' = RecordOutcome(seen, e.sid, "deferred")
           ELSE IF LimitReached(currentCount)
           THEN /\ Commit(m2, rest (+) One([e EXCEPT !.pc = "blocked",
                                                     !.agent = state.lastUserAgent,
                                                     !.model = state.lastUserModel]))
                /\ obs' = RecordPrompt(seen, e.sid, "paused", todoKey)
           ELSE IF config.useToasts
           THEN /\ Commit(m3, rest (+) One([e EXCEPT !.pc = "toast", !.now = 0,
                                                     !.text = buildPromptText(pendingTodos, todos)]))
                /\ obs' = WatchCount(seen, e.sid, todoKey)
           ELSE /\ Commit(m3, rest (+) One([e EXCEPT !.pc = "prompt", !.now = 0,
                                                     !.agent = state.lastUserAgent,
                                                     !.model = state.lastUserModel,
                                                     !.text = buildPromptText(pendingTodos, todos)]))
                /\ obs' = RecordPrompt(seen, e.sid, "reminder", todoKey)
    /\ UNCHANGED <<config, simple, world>>

\* client.session.todo answered: the code from there to the next await.
EvalTodos(e, ok) ==
    /\ BagIn(e, evals)
    /\ e.pc = "todos"
    /\ LET rest == evals (-) One(e)
           todos == Todos(e.sid)
           pendingTodos == filterPendingTodos(todos)
           m1 == [Mem EXCEPT !.heap[e.st].hasPending = Len(pendingTodos) > 0]
           state == m1.heap[e.st]
           todoKey == getTodoKey(pendingTodos[1])
           currentCount == Get0(state.perTodoInjectCount, todoKey)
           m2 == [m1 EXCEPT !.heap[e.st].loopProtectionTriggered = TRUE]
           m3 == [m1 EXCEPT !.heap[e.st].perTodoInjectCount =
                                Put(@, todoKey, currentCount + 1)]
           seen == SeesTodos(obs, e.sid, todos)
       IN  IF ~ok
           THEN Commit(Mem, rest) /\ obs' = RecordOutcome(obs, e.sid, "unfetched")
           ELSE IF Len(pendingTodos) = 0
           THEN Commit(cleanupSession(m1, e.sid), rest) /\ obs' = seen
           ELSE IF CooldownActive(state, 0)
           THEN Commit(m1, rest) /\ obs' = RecordOutcome(seen, e.sid, "deferred")
           ELSE IF LimitReached(currentCount)
           THEN /\ Commit(m2, rest (+) One([e EXCEPT !.pc = "blocked",
                                                     !.agent = state.lastUserAgent,
                                                     !.model = state.lastUserModel]))
                /\ obs' = RecordPrompt(seen, e.sid, "paused", todoKey)
           ELSE IF config.useToasts
           THEN /\ Commit(m3, rest (+) One([e EXCEPT !.pc = "toast", !.now = 0,
                                                     !.text = buildPromptText(pendingTodos, todos)]))
                /\ obs' = WatchCount(seen, e.sid, todoKey)
           ELSE /\ Commit(m3, rest (+) One([e EXCEPT !.pc = "prompt", !.now = 0,
                                                     !.agent = state.lastUserAgent,
                                                     !.model = state.lastUserModel,
                                                     !.text = buildPromptText(pendingTodos, todos)]))
                /\ obs' = RecordPrompt(seen, e.sid, "reminder", todoKey)
    /\ UNCHANGED <<config, simple, world>>

\* (variant) a toast that throws ends the evaluation
EvalToastRethrows(e, ok) ==
    /\ BagIn(e, evals)
    /\ e.pc = "toast"
    /\ ok \in BOOLEAN
    /\ IF ok
       THEN /\ Commit(Mem, Swap(evals, e, [e EXCEPT !.pc = "prompt",
                                                    !.agent = heap[e.st].lastUserAgent,
                                                    !.model = heap[e.st].lastUserModel]))
            /\ obs' = RecordPrompt(obs, e.sid, "reminder", "")
       ELSE /\ Commit(Mem, evals (-) One(e))
            /\ obs' = RecordOutcome(obs, e.sid, "failed")
    /\ UNCHANGED <<config, simple, world>>

\* client.tui.showToast answered (or threw): the reminder prompt is sent.
EvalToast(e, ok) ==
    /\ BagIn(e, evals)
    /\ e.pc = "toast"
    /\ ok \in BOOLEAN
    /\ Commit(Mem, Swap(evals, e, [e EXCEPT !.pc = "prompt",
                                             !.agent = heap[e.st].lastUserAgent,
                                             !.model = heap[e.st].lastUserModel]))
    /\ obs' = RecordPrompt(IF ok THEN obs ELSE RecordOutcome(obs, e.sid, "failed"),
                            e.sid, "reminder", "")
    /\ UNCHANGED <<config, simple, world>>

\* (variant) a cancelled prompt leaves lastInjectAtMs as it was
EvalPromptForgetsCancel(e, result) ==
    /\ BagIn(e, evals)
    /\ e.pc = "prompt"
    /\ LET m1 == [Mem EXCEPT !.heap[e.st].lastInjectAtMs = e.now]
       IN  Commit(IF result = "ok" THEN m1 ELSE Mem, evals (-) One(e))
    /\ obs' = IF result = "throw"
              THEN RecordOutcome(RecordFailure(obs, e.sid), e.sid, "failed")
              ELSE IF result = "cancelled"
              THEN RecordOutcome(RecordInjection(obs, e.sid, e.now), e.sid, "cancelled")
              ELSE RecordInjection(obs, e.sid, e.now)
    /\ UNCHANGED <<config, simple, world>>

\* (variant) a delivered reminder schedules the next one (periodic reminders)
EvalPromptReschedules(e, result) ==
    /\ BagIn(e, evals)
    /\ e.pc = "prompt"
    /\ LET m1 == [Mem EXCEPT !.heap[e.st].lastInjectAtMs = e.now]
           m2 == scheduleInjection(m1, e.sid, FreshHandle(e.sid), 0 + config.idleDelayMs)
       IN  Commit(IF result = "throw" THEN Mem ELSE IF result = "ok" THEN m2 ELSE m1,
                  evals (-) One(e))
    /\ obs' = IF result = "throw"
              THEN RecordOutcome(RecordFailure(obs, e.sid), e.sid, "failed")
              ELSE IF result = "cancelled"
              THEN RecordOutcome(RecordInjection(obs, e.sid, e.now), e.sid, "cancelled")
              ELSE RecordInjection(obs, e.sid, e.now)
    /\ UNCHANGED <<config, simple, world>>

\* (variant) a prompt that threw counts as an injection all the same
EvalPromptStampsFailure(e, result) ==
    /\ BagIn(e, evals)
    /\ e.pc = "prompt"
    /\ Commit([Mem EXCEPT !.heap[e.st].lastInjectAtMs = e.now], evals (-) One(e))
    /\ obs' = IF result = "throw"
              THEN RecordOutcome(RecordFailure(obs, e.sid), e.sid, "failed")
              ELSE IF result = "cancelled"
              THEN RecordOutcome(RecordInjection(obs, e.sid, e.now), e.sid, "cancelled")
              ELSE RecordInjection(obs, e.sid, e.now)
    /\ UNCHANGED <<config, simple, world>>

\* client.session.prompt (reminder) answered: "ok", "cancelled" or "throw".
EvalPrompt(e, result) ==
    /\ BagIn(e, evals)
    /\ e.pc = "prompt"
    /\ LET m1 == [Mem EXCEPT !.heap[e.st].lastInjectAtMs = e.now]
       IN  Commit(IF result = "throw" THEN Mem ELSE m1, evals (-) One(e))
    /\ obs' = IF result = "throw"
              THEN RecordOutcome(RecordFailure(obs, e.sid), e.sid, "failed")
              ELSE IF result = "cancelled"
              THEN RecordOutcome(RecordInjection(obs, e.sid, e.now), e.sid, "cancelled")
              ELSE RecordInjection(obs, e.sid, e.now)
    /\ UNCHANGED <<config, simple, world>>

\* (variant) a delivered paused notice counts as an injection
EvalBlockedStamps(e, ok) ==
    /\ BagIn(e, evals)
    /\ e.pc = "blocked"
    /\ ok \in BOOLEAN
    /\ Commit(IF ok THEN [Mem EXCEPT !.heap[e.st].lastInjectAtMs = 0] ELSE Mem,
              evals (-) One(e))
    /\ obs' = IF ok THEN obs ELSE RecordOutcome(obs, e.sid, "failed")
    /\ UNCHANGED <<config, simple, world>>

\* client.session.prompt (paused notice) answered or threw.
EvalBlocked(e, ok) ==
    /\ BagIn(e, evals)
    /\ e.pc = "blocked"
    /\ ok \in BOOLEAN
    /\ Commit(Mem, evals (-) One(e))
    /\ obs' = IF ok THEN obs ELSE RecordOutcome(obs, e.sid, "failed")
    /\ UNCHANGED <<config, simple, world>>

\* Time passes by one unit; a due timer runs before the clock moves on.
Tick ==
    /\ \A t \in timers : t.due > 0
    /\ \A s \in Sessions : ~world[s].unsent
    /\ heap' = [o \in DOMAIN heap |->
                    [heap[o] EXCEPT !.lastInjectAtMs = Older(@)]]
    /\ timers' = {[t EXCEPT !.due = @ - 1] : t \in timers}
    /\ evals' = BagOfAll(LAMBDA e : [e EXCEPT !.now = Older(@)], evals)
    /\ obs' = [s \in DOMAIN obs |-> [obs[s] EXCEPT !.lastEvalAt = Older(@),
                                                   !.lastReminderAt = Older(@),
                                                   !.outcome = ""]]
    /\ UNCHANGED <<config, simple, sessionStates, world>>

-----------------------------------------------------------------------------

Next ==
    \/ \E s \in Sessions, todos \in TodoLists : TodoWrite(s, todos)
    \/ \E s \in Sessions : TodoUpdated(s)
    \/ \E s \in Sessions : SessionIdle(s)
    \/ \E s \in Sessions, role \in Roles :
           MessageUpdated(s, role, "undefined", "undefined")
    \/ \E s \in Sessions : MessagePartUpdated(s)
    \/ \E s \in Sessions : SessionDeleted(s)
    \/ \E t \in timers : TimerFire(t, MaxInFlight)
    \/ \E e \in BagToSet(evals), lastMessage \in MessageOutcomes : EvalMessages(e, lastMessage)
    \/ \E e \in BagToSet(evals), ok \in BOOLEAN : EvalTodos(e, ok)
    \/ \E e \in BagToSet(evals), ok \in BOOLEAN : EvalToast(e, ok)
    \/ \E e \in BagToSet(evals), result \in {"ok", "cancelled", "throw"} : EvalPrompt(e, result)
    \/ \E e \in BagToSet(evals), ok \in BOOLEAN : EvalBlocked(e, ok)
    \/ Tick

\* One evaluation at a time, with every todo list.
Spec == Init /\ [][Next]_vars

\* Evaluations may overlap; the todo lists are those of a single todo.
NextOverlap ==
    \/ \E s \in Sessions, todos \in ShortTodoLists : TodoWrite(s, todos)
    \/ \E s \in Sessions : TodoUpdated(s)
    \/ \E s \in Sessions : SessionIdle(s)
    \/ \E s \in Sessions, role \in Roles :
           MessageUpdated(s, role, "undefined", "undefined")
    \/ \E s \in Sessions : MessagePartUpdated(s)
    \/ \E s \in Sessions : SessionDeleted(s)
    \/ \E t \in timers : TimerFire(t, MaxOverlap)
    \/ \E e \in BagToSet(evals), lastMessage \in MessageOutcomes : EvalMessages(e, lastMessage)
    \/ \E e \in BagToSet(evals), ok \in BOOLEAN : EvalTodos(e, ok)
    \/ \E e \in BagToSet(evals), ok \in BOOLEAN : EvalToast(e, ok)
    \/ \E e \in BagToSet(evals), result \in {"ok", "cancelled", "throw"} : EvalPrompt(e, result)
    \/ \E e \in BagToSet(evals), ok \in BOOLEAN : EvalBlocked(e, ok)
    \/ Tick

SpecOverlap == Init /\ [][NextOverlap]_vars

\* User messages name agents and models; one evaluation at a time, the
\* todo lists are those of a single todo.
NextAgents ==
    \/ \E s \in Sessions, todos \in ShortTodoLists : TodoWrite(s, todos)
    \/ \E s \in Sessions : TodoUpdated(s)
    \/ \E s \in Sessions : SessionIdle(s)
    \/ \E s \in Sessions, role \in Roles, agent \in Agents, model \in Models :
           MessageUpdated(s, role, agent, model)
    \/ \E s \in Sessions : MessagePartUpdated(s)
    \/ \E s \in Sessions : SessionDeleted(s)
    \/ \E t \in timers : TimerFire(t, MaxInFlight)
    \/ \E e \in BagToSet(evals), lastMessage \in MessageOutcomes : EvalMessages(e, lastMessage)
    \/ \E e \in BagToSet(evals), ok \in BOOLEAN : EvalTodos(e, ok)
    \/ \E e \in BagToSet(evals), ok \in BOOLEAN : EvalToast(e, ok)
    \/ \E e \in BagToSet(evals), result \in {"ok", "cancelled", "throw"} : EvalPrompt(e, result)
    \/ \E e \in BagToSet(evals), ok \in BOOLEAN : EvalBlocked(e, ok)
    \/ Tick

SpecAgents == Init /\ [][NextAgents]_vars

\* The engine enabled or disabled.
SpecAnyConfig == InitAnyConfig /\ [][Next]_vars

\* Two sessions, one evaluation at a time, each list empty or [a: pending];
\* the configuration has no toasts, so no call waits for one.
NextTwo ==
    \/ \E s \in Sessions, todos \in PendingOrNone : TodoWrite(s, todos)
    \/ \E s \in Sessions : TodoUpdated(s)
    \/ \E s \in Sessions : SessionIdle(s)
    \/ \E s \in Sessions, role \in Roles :
           MessageUpdated(s, role, "undefined", "undefined")
    \/ \E s \in Sessions : MessagePartUpdated(s)
    \/ \E s \in Sessions : SessionDeleted(s)
    \/ \E t \in timers : TimerFire(t, MaxInFlight)
    \/ \E e \in BagToSet(evals), lastMessage \in MessageOutcomes : EvalMessages(e, lastMessage)
    \/ \E e \in BagToSet(evals), ok \in BOOLEAN : EvalTodos(e, ok)
    \/ \E e \in BagToSet(evals), result \in {"ok", "cancelled", "throw"} : EvalPrompt(e, result)
    \/ \E e \in BagToSet(evals), ok \in BOOLEAN : EvalBlocked(e, ok)
    \/ Tick

SpecTwo == InitTwo /\ [][NextTwo]_vars

\* One session, every event and every collaborator outcome, no toasts.
NextLive ==
    \* The lists of a session whose todo a is pending or gone and whose todo b,
    \* if there is one, is completed.
    \/ \E s \in Sessions,
          todos \in {<<>>, <<TodoA("pending")>>, <<TodoA("pending"), TodoB("completed")>>} :
           TodoWrite(s, todos)
    \/ \E s \in Sessions : TodoUpdated(s)
    \/ \E s \in Sessions : SessionIdle(s)
    \/ \E s \in Sessions, role \in Roles :
           MessageUpdated(s, role, "undefined", "undefined")
    \/ \E s \in Sessions : MessagePartUpdated(s)
    \/ \E s \in Sessions : SessionDeleted(s)
    \/ \E t \in timers : TimerFire(t, MaxInFlight)
    \/ \E e \in BagToSet(evals), lastMessage \in MessageOutcomes : EvalMessages(e, lastMessage)
    \/ \E e \in BagToSet(evals), ok \in BOOLEAN : EvalTodos(e, ok)
    \/ \E e \in BagToSet(evals), result \in {"ok", "cancelled", "throw"} : EvalPrompt(e, result)
    \/ \E e \in BagToSet(evals), ok \in BOOLEAN : EvalBlocked(e, ok)
    \/ Tick

\* One session whose single todo a goes through the statuses pending,
\* in_progress and completed, watched by the observer.
InitStatuses ==
    /\ config \in
         [enabled : {TRUE},
          triggerStatuses : {{"pending", "in_progress", "open"}},
          maxAutoSubmitsPerTodo : {2},
          idleDelayMs : {1},
          cooldownMs : {1},
          useToasts : BOOLEAN,
          includeProgressInPrompt : {FALSE}]
    /\ NoCounters
    /\ heap = EmptyMap
    /\ sessionStates = EmptyMap
    /\ timers = {}
    /\ evals = EmptyBag
    /\ world = [s \in OneSession |-> [todos |-> <<>>, unsent |-> FALSE]]
    /\ obs = [s \in OneSession |->
                 [seenPending |-> FALSE,
                  lastEvalAt |-> Epoch,
                  lastReminderAt |-> Epoch,
                  quiet |-> FALSE,
                  stuck |-> "",
                  noticed |-> "",
                  outcome |-> "",
                  agent |-> "undefined",
                  model |-> "undefined",
                  status |-> "",
                  counted |-> 0,
                  removed |-> FALSE,
                  spoken |-> FALSE,
                  deferred |-> FALSE]]

NextStatuses ==
    \/ \E s \in Sessions, x \in {"pending", "in_progress", "completed"} :
           TodoWrite(s, <<TodoA(x)>>)
    \/ \E s \in Sessions : TodoUpdated(s)
    \/ \E s \in Sessions : SessionIdle(s)
    \/ \E s \in Sessions, role \in Roles :
           MessageUpdated(s, role, "undefined", "undefined")
    \/ \E s \in Sessions : MessagePartUpdated(s)
    \/ \E s \in Sessions : SessionDeleted(s)
    \/ \E t \in timers : TimerFire(t, MaxInFlight)
    \/ \E e \in BagToSet(evals), lastMessage \in MessageOutcomes : EvalMessages(e, lastMessage)
    \/ \E e \in BagToSet(evals), ok \in BOOLEAN : EvalTodos(e, ok)
    \/ \E e \in BagToSet(evals), ok \in BOOLEAN : EvalToast(e, ok)
    \/ \E e \in BagToSet(evals), result \in {"ok", "cancelled", "throw"} : EvalPrompt(e, result)
    \/ \E e \in BagToSet(evals), ok \in BOOLEAN : EvalBlocked(e, ok)
    \/ Tick

SpecStatuses == InitStatuses /\ [][NextStatuses]_vars

\* The runtime: time goes on; a timer that is due again and again runs
\* (the event loop looks at its timers on every turn); a published event is
\* handled; an awaited promise is settled, and the call goes on.
Fairness ==
    /\ SF_vars(Tick)
    /\ SF_vars(\E t \in timers : TimerFire(t, MaxInFlight))
    /\ WF_vars(\E s \in OneSession : TodoUpdated(s))
    /\ WF_vars(\E e \in BagToSet(evals), lastMessage \in MessageOutcomes :
                   EvalMessages(e, lastMessage))
    /\ WF_vars(\E e \in BagToSet(evals), ok \in BOOLEAN : EvalTodos(e, ok))
    /\ WF_vars(\E e \in BagToSet(evals), result \in {"ok", "cancelled", "throw"} :
                   EvalPrompt(e, result))
    /\ WF_vars(\E e \in BagToSet(evals), ok \in BOOLEAN : EvalBlocked(e, ok))

SpecLive == InitLive /\ [][NextLive]_vars /\ Fairness

-----------------------------------------------------------------------------
(* The reminder built from config.messageFormat.  A text is a sequence of  *)
(* chunks: a brace, the name between two braces, a decimal digit, or any   *)
(* other piece of text.                                                    *)

MaxTodos == 3
MaxPieces == 3

PlaceholderNames == {"total", "completed", "pending", "remaining"}

RECURSIVE Concats(_)
Concats(n) ==
    \* What a template is put together from: a placeholder the code knows,
    \* one it does not know, a lone brace, a bare name, other text.
    LET Pieces ==
            {<<"{", x, "}">> : x \in PlaceholderNames \cup {"name"}}
            \cup {<<"{">>, <<"}">>, <<"total">>, <<", ">>}
    IN  IF n = 0
        THEN {<<>>}
        ELSE Concats(n - 1) \cup {t \o p : t \in Concats(n - 1), p \in Pieces}

ExampleFormat ==
    <<"{", "completed", "}", "/", "{", "total", "}", ", ",
      "{", "remaining", "}", " left, ", "{", "pending", "}", " pending">>

\* The todo lists of at most MaxTodos todos.
FormatTodoLists ==
    UNION {{[i \in 1 .. n |-> [id |-> ToString(i), content |-> "task", status |-> st[i]]] :
               st \in [1 .. n -> {"pending", "in_progress", "completed", "cancelled"}]} :
           n \in 0 .. MaxTodos}

\* text.replace(/\{name\}/g, value): the matches are found from left to
\* right, each search going on after the end of the last match.
RECURSIVE replaceAll(_, _, _)
replaceAll(text, name, value) ==
    IF text = <<>>
    THEN <<>>
    ELSE IF Len(text) >= 3 /\ text[1] = "{" /\ text[2] = name /\ text[3] = "}"
    THEN value \o replaceAll(SubSeq(text, 4, Len(text)), name, value)
    ELSE <<text[1]>> \o replaceAll(Tail(text), name, value)

\* text.replace("{name}", value): the first match only.
RECURSIVE replaceFirst(_, _, _)
replaceFirst(text, name, value) ==
    IF text = <<>>
    THEN <<>>
    ELSE IF Len(text) >= 3 /\ text[1] = "{" /\ text[2] = name /\ text[3] = "}"
    THEN value \o SubSeq(text, 4, Len(text))
    ELSE <<text[1]>> \o replaceFirst(Tail(text), name, value)

\* (variant) every placeholder is replaced where it first occurs only
formatFirstOnly(messageFormat, todos, pending) ==
    LET completed == Len(SelectSeq(todos, IsDone))
        t1 == replaceFirst(messageFormat, "total", String(Len(todos)))
        t2 == replaceFirst(t1, "completed", String(completed))
        t3 == replaceFirst(t2, "pending", String(Len(pending)))
    IN  replaceFirst(t3, "remaining", String(Len(pending)))

\* The message of inject: four replacements, one after the other.
formatMessage(messageFormat, todos, pending) ==
    LET completed == Len(SelectSeq(todos, IsDone))
        t1 == replaceAll(messageFormat, "total", String(Len(todos)))
        t2 == replaceAll(t1, "completed", String(completed))
        t3 == replaceAll(t2, "pending", String(Len(pending)))
    IN  replaceAll(t3, "remaining", String(Len(pending)))

InitFormat ==
    /\ config \in
         [enabled : {TRUE},
          triggerStatuses : {{"pending", "in_progress", "open"}},
          maxAutoSubmitsPerTodo : {3},
          idleDelayMs : {1},
          messageFormat : (Concats(MaxPieces) \cup {ExampleFormat}),
          useToasts : {FALSE}]
    /\ NoCounters
    /\ heap = EmptyMap
    /\ sessionStates = EmptyMap
    /\ timers = {}
    /\ evals = EmptyBag
    /\ world \in [OneSession -> [todos : FormatTodoLists, unsent : {FALSE}]]
    /\ obs = EmptyMap

\* inject, from the list client.session.todo answered to the call of
\* client.session.prompt with the message.
SendMessage(s) ==
    LET todos == Todos(s)
        pending == filterPendingTodos(todos)
    IN  /\ evals = EmptyBag
        /\ Len(pending) > 0
        /\ evals' = One([sid |-> s, pc |-> "prompt",
                         message |-> formatMessage(config.messageFormat, todos, pending)])
        /\ UNCHANGED <<config, simple, heap, sessionStates, timers, world, obs>>

NextFormat == \E s \in Sessions : SendMessage(s)

SpecFormat == InitFormat /\ [][NextFormat]_vars

-----------------------------------------------------------------------------
(* filterPendingTodos applied to a list, for a set of trigger statuses.    *)

InitFilter ==
    /\ config \in
         [enabled : {TRUE},
          triggerStatuses : {{}, {"pending"}, {"pending", "in_progress", "open"},
                             {"completed", "cancelled"}},
          maxAutoSubmitsPerTodo : {3},
          idleDelayMs : {1},
          cooldownMs : {1},
          useToasts : {FALSE},
          includeProgressInPrompt : {FALSE}]
    /\ NoCounters
    /\ heap = EmptyMap
    /\ sessionStates = EmptyMap
    /\ timers = {}
    /\ evals = EmptyBag
    /\ world \in [OneSession -> [todos : FormatTodoLists, unsent : {FALSE}]]
    /\ obs = EmptyMap

\* maybeInject from the list client.session.todo answered to the list
\* filterPendingTodos returns.
FilterTodos(s) ==
    /\ evals = EmptyBag
    /\ evals' = One([sid |-> s, pc |-> "filtered",
                     pendingTodos |-> filterPendingTodos(Todos(s))])
    /\ UNCHANGED <<config, simple, heap, sessionStates, timers, world, obs>>

NextFilter == \E s \in Sessions : FilterTodos(s)

SpecFilter == InitFilter /\ [][NextFilter]_vars

-----------------------------------------------------------------------------
(* The engine of src/src/plugin.ts.  Its todo.updated, session.idle and    *)
(* session.deleted handlers are those above; it cancels the pending timer  *)
(* on message.part.updated too, has the experimental.text.complete hook as *)
(* a second trigger, and its maybeInject asks for the todos at once and    *)
(* shows no toast.  Time unit: 500 ms.                                     *)

\* The 500 ms the fallback delay adds to idleDelayMs.
FallbackExtraMs == 1

InitPlugin ==
    /\ config \in
         [enabled : BOOLEAN,
          triggerStatuses : {{"pending", "in_progress", "open"}},
          maxAutoSubmitsPerTodo : {1},
          idleDelayMs : {1},
          cooldownMs : {2},
          useToasts : {FALSE},
          includeProgressInPrompt : {FALSE}]
    /\ NoCounters
    /\ heap = EmptyMap
    /\ sessionStates = EmptyMap
    /\ timers = {}
    /\ evals = EmptyBag
    /\ world = [s \in OneSession |-> [todos |-> <<>>, unsent |-> FALSE]]
    /\ obs = [s \in OneSession |-> [burst |-> {}] @@ Unobserved]

\* event.type === "message.updated"
PluginMessageUpdated(s, role) ==
    LET m1 == cancelPendingTimer(Mem, s)
    IN  /\ Commit(IF role = "user" THEN m1 ELSE Mem, evals)
        /\ obs' = IF role = "user" /\ m1.timers # timers
                  THEN RecordQuiet(obs, s, TRUE)
                  ELSE obs
        /\ UNCHANGED <<config, simple, world>>

\* (variant) the handle is forgotten but clearTimeout is not called
PartUpdatedForgets(s) ==
    LET m1 == forgetPendingTimer(Mem, s)
    IN  /\ Commit(m1, evals)
        /\ obs' = IF m1.heap # heap
                  THEN RecordOutcome(RecordQuiet(obs, s, TRUE), s, "interrupted")
                  ELSE obs
        /\ UNCHANGED <<config, simple, world>>

\* event.type === "message.part.updated"
PluginPartUpdated(s) ==
    LET m1 == cancelPendingTimer(Mem, s)
    IN  /\ Commit(m1, evals)
        /\ obs' = IF m1.timers # timers
                  THEN RecordOutcome(RecordQuiet(obs, s, TRUE), s, "interrupted")
                  ELSE obs
        /\ UNCHANGED <<config, simple, world>>

\* (variant) the hook sets its timer without cancelling the pending one
TextCompleteBesideOld(s) ==
    LET m1 == getState(Mem, s)
        o == m1.map[s]
        state == m1.heap[o]
        fallbackDelay == config.idleDelayMs + FallbackExtraMs
        m2 == m1
        h == FreshHandle(s)
        m3 == [m2 EXCEPT !.heap[o].pendingInjectTimer = h,
                         !.timers = m2.timers
                             \cup {[sid |-> s, h |-> h, st |-> o, due |-> 0 + fallbackDelay]}]
    IN  /\ IF ~config.enabled
           THEN Commit(Mem, evals) /\ obs' = obs
           ELSE IF state.hasPending = FALSE
           THEN Commit(m1, evals) /\ obs' = obs
           ELSE /\ Commit(m3, evals)
                /\ obs' = WatchBurst(RecordOutcome(RecordQuiet(obs, s, FALSE), s, ""),
                                     s, "text")
        /\ UNCHANGED <<config, simple, world>>

\* The hook "experimental.text.complete"
TextComplete(s) ==
    LET m1 == getState(Mem, s)
        o == m1.map[s]
        state == m1.heap[o]
        fallbackDelay == config.idleDelayMs + FallbackExtraMs
        m2 == cancelPendingTimer(m1, s)
        h == FreshHandle(s)
        m3 == [m2 EXCEPT !.heap[o].pendingInjectTimer = h,
                         !.timers = m2.timers
                             \cup {[sid |-> s, h |-> h, st |-> o, due |-> 0 + fallbackDelay]}]
    IN  /\ IF ~config.enabled
           THEN Commit(Mem, evals) /\ obs' = obs
           ELSE IF state.hasPending = FALSE
           THEN Commit(m1, evals) /\ obs' = obs
           ELSE /\ Commit(m3, evals)
                /\ obs' = WatchBurst(RecordOutcome(RecordQuiet(obs, s, FALSE), s, ""),
                                     s, "text")
        /\ UNCHANGED <<config, simple, world>>

\* The setTimeout callback up to maybeInject's first await.
PluginTimerFire(t, cap) ==
    /\ t \in timers
    /\ 0 >= t.due
    /\ BagCardinality(evals) < cap
    /\ LET m1 == [Mem EXCEPT !.timers = timers \ {t},
                             !.heap[t.st].pendingInjectTimer = 0]
           m2 == getState(m1, t.sid)
           o == m2.map[t.sid]
           e == [sid |-> t.sid, st |-> o, pc |-> "todos", now |-> Epoch,
                 agent |-> "undefined", model |-> "undefined", text |-> <<>>]
       IN  IF ~config.enabled
           THEN Commit(m1, evals)
           ELSE IF m2.heap[o].loopProtectionTriggered
                THEN Commit(m2, evals)
                ELSE Commit(m2, evals (+) One(e))
    /\ obs' = IF ~config.enabled THEN RecordOutcome(obs, t.sid, "disabled") ELSE obs
    /\ UNCHANGED <<config, simple, world>>

\* client.session.todo answered: the code from there to the next await.
PluginEvalTodos(e, ok) ==
    /\ BagIn(e, evals)
    /\ e.pc = "todos"
    /\ LET rest == evals (-) One(e)
           todos == Todos(e.sid)
           pendingTodos == filterPendingTodos(todos)
           m1 == [Mem EXCEPT !.heap[e.st].hasPending = Len(pendingTodos) > 0]
           state == m1.heap[e.st]
           todoKey == getTodoKey(pendingTodos[1])
           currentCount == Get0(state.perTodoInjectCount, todoKey)
           m2 == [m1 EXCEPT !.heap[e.st].loopProtectionTriggered = TRUE]
           m3 == [m1 EXCEPT !.heap[e.st].perTodoInjectCount =
                                Put(@, todoKey, currentCount + 1)]
           seen == SeesTodos(obs, e.sid, todos)
       IN  IF ~ok
           THEN Commit(Mem, rest) /\ obs' = RecordOutcome(obs, e.sid, "unfetched")
           ELSE IF Len(pendingTodos) = 0
           THEN Commit(cleanupSession(m1, e.sid), rest) /\ obs' = seen
           ELSE IF CooldownActive(state, 0)
           THEN Commit(m1, rest) /\ obs' = RecordOutcome(seen, e.sid, "deferred")
           ELSE IF LimitReached(currentCount)
           THEN /\ Commit(m2, rest (+) One([e EXCEPT !.pc = "blocked"]))
                /\ obs' = RecordPrompt(seen, e.sid, "paused", todoKey)
           ELSE /\ Commit(m3, rest (+) One([e EXCEPT !.pc = "prompt", !.now = 0,
                                                     !.text = buildPromptText(pendingTodos, todos)]))
                /\ obs' = RecordPrompt(seen, e.sid, "reminder", todoKey)
    /\ UNCHANGED <<config, simple, world>>

\* client.session.prompt (reminder) answered or threw.
PluginEvalPrompt(e, ok) ==
    /\ BagIn(e, evals)
    /\ e.pc = "prompt"
    /\ ok \in BOOLEAN
    /\ Commit(IF ok THEN [Mem EXCEPT !.heap[e.st].lastInjectAtMs = e.now] ELSE Mem,
              evals (-) One(e))
    /\ obs' = IF ok
              THEN RecordInjection(obs, e.sid, e.now)
              ELSE RecordOutcome(RecordFailure(obs, e.sid), e.sid, "failed")
    /\ UNCHANGED <<config, simple, world>>

\* client.session.prompt (paused notice) answered or threw.
PluginEvalBlocked(e, ok) ==
    /\ BagIn(e, evals)
    /\ e.pc = "blocked"
    /\ ok \in BOOLEAN
    /\ Commit(Mem, evals (-) One(e))
    /\ obs' = IF ok THEN obs ELSE RecordOutcome(obs, e.sid, "failed")
    /\ UNCHANGED <<config, simple, world>>

NextPlugin ==
    \/ \E s \in Sessions, todos \in ShortTodoLists : TodoWrite(s, todos)
    \/ \E s \in Sessions : TodoUpdated(s)
    \/ \E s \in Sessions : SessionIdle(s)
    \/ \E s \in Sessions, role \in Roles : PluginMessageUpdated(s, role)
    \/ \E s \in Sessions : PluginPartUpdated(s)
    \/ \E s \in Sessions : SessionDeleted(s)
    \/ \E s \in Sessions : TextComplete(s)
    \/ \E t \in timers : PluginTimerFire(t, MaxInFlight)
    \/ \E e \in BagToSet(evals), ok \in BOOLEAN : PluginEvalTodos(e, ok)
    \/ \E e \in BagToSet(evals), ok \in BOOLEAN : PluginEvalPrompt(e, ok)
    \/ \E e \in BagToSet(evals), ok \in BOOLEAN : PluginEvalBlocked(e, ok)
    \/ Tick

SpecPlugin == InitPlugin /\ [][NextPlugin]_vars

-----------------------------------------------------------------------------
(* The snapshot-counter engine (src/unnamed/part_002, lines 40-272).  It   *)
(* keeps a Map of timers, one inject counter and one snapshot of the todo  *)
(* list per session, the id of the last user message and the set of        *)
(* aborted sessions.  The variable timers holds the entries of its Map     *)
(* timers with the time each callback is due: scheduleInject clears the    *)
(* old handle before it sets the new one and the callback deletes its own  *)
(* entry, so the Map and the runtime's table have the same timers.  The    *)
(* variable evals holds the inject calls suspended at an await, with       *)
(* their locals.                                                           *)

\* The lists of a session: none, the todo a, and the todos a and b in
\* either order.
SimpleTodoLists ==
    {<<>>}
    \cup {<<TodoA(x)>> : x \in {"pending", "in_progress", "completed"}}
    \cup {<<TodoA("completed"), TodoB("pending")>>,
          <<TodoB("pending"), TodoA("completed")>>}

\* The ids of user messages.  The host repeats the event of the latest
\* message of a session only, so that an id other than the latest is the
\* id of a new message.
MsgIds == {"m1", "m2"}

\* The snapshot string, as the sequence of the entries join(",") joins.
\* EntryOrder holds the strings `${t.id}:${t.status}` of the lists above,
\* in the order Array.prototype.sort gives them (by UTF-16 code units).
snapshot(todos) ==
    LET EntryOrder ==
            <<<<"", "completed">>, <<"", "pending">>,
              <<"a", "completed">>, <<"a", "in_progress">>, <<"a", "pending">>>>
        EntryRank(x) == CHOOSE i \in DOMAIN EntryOrder : EntryOrder[i] = x
        EntryBefore(x, y) == EntryRank(x) < EntryRank(y)
    IN  SortSeq([i \in DOMAIN todos |-> <<todos[i].id, todos[i].status>>], EntryBefore)

\* The timers left after cancelTimer(sessionID).
cancelTimer(ts, s) == {t \in ts : t.sid # s}

(* What an observer of session s records of the snapshot-counter engine:   *)
(*   sent       the reminder prompts delivered since the counter of s was  *)
(*              last reset in one of the ways the engine's documentation   *)
(*              names: an evaluation was shown a list whose snapshot       *)
(*              differs from that of the list the evaluation before it     *)
(*              was shown, a new user message, session.deleted             *)
(*   shown      an evaluation of s was shown a list since s was created    *)
(*   list       the list the last such evaluation was shown                *)
(*   pausedAt   <<l>> where l is the host's list when a delivered         *)
(*              reminder last brought the counter of s to the cap, <<>>   *)
(*              if none did since s was created                            *)
(*   last       the id of the latest user message of s ("" if none)        *)
(*   fresh      "message": a new user message was handled and no timer of  *)
(*              s ran since; "started": the first evaluation since then    *)
(*              waits for the todos; "no" otherwise                        *)
(*   aborted    a MessageAbortedError was handled for s and no             *)
(*              session.idle, new user message or session.deleted since    *)
(*   skipped    the last session.idle event of s left s without a timer    *)
(*              (FALSE if there was none since s was created)              *)
SimpleUnobserved ==
    [sent |-> 0,
     shown |-> FALSE,
     list |-> <<>>,
     pausedAt |-> <<>>,
     last |-> "",
     fresh |-> "no",
     aborted |-> FALSE,
     skipped |-> FALSE]

\* An evaluation of s is shown the list todos.
ShownList(o, s, todos) ==
    [o EXCEPT ![s].shown = TRUE,
              ![s].list = todos,
              ![s].sent = IF o[s].shown /\ snapshot(o[s].list) # snapshot(todos)
                          THEN 0
                          ELSE @]

InitSimple ==
    /\ config \in
         [enabled : {TRUE},
          triggerStatuses : {{"pending", "in_progress", "open"}},
          maxAutoSubmitsPerTodo : {2},
          idleDelayMs : {1},
          messageFormat : {ExampleFormat},
          useToasts : BOOLEAN]
    /\ NoCounters
    /\ heap = EmptyMap
    /\ sessionStates = EmptyMap
    /\ timers = {}
    /\ evals = EmptyBag
    /\ world = [s \in OneSession |-> [todos |-> <<>>, unsent |-> FALSE]]
    /\ obs = [s \in OneSession |-> SimpleUnobserved]

\* The todo tool writes the list of a session (this engine handles no
\* todo.updated event).
SimpleTodoWrite(s, todos) ==
    /\ todos # Todos(s)
    /\ world' = [world EXCEPT ![s].todos = todos]
    /\ UNCHANGED <<config, simple, heap, sessionStates, timers, evals, obs>>

\* (variant) the abort flag is not cleared by the idle event it silences
IdleKeepsAbort(s) ==
    /\ IF s \in abortedSessions
       THEN timers' = cancelTimer(timers, s)
       ELSE timers' = cancelTimer(timers, s)
                          \cup {[sid |-> s, due |-> 0 + config.idleDelayMs]}
    /\ obs' = [obs EXCEPT ![s].aborted = FALSE,
                          ![s].skipped = cancelTimer(timers', s) = timers']
    /\ UNCHANGED <<config, heap, sessionStates, evals, world, simple>>

\* event.type === "session.idle"
SimpleIdle(s) ==
    /\ IF s \in abortedSessions
       THEN /\ abortedSessions' = abortedSessions \ {s}
            /\ timers' = cancelTimer(timers, s)
       ELSE /\ timers' = cancelTimer(timers, s)
                             \cup {[sid |-> s, due |-> 0 + config.idleDelayMs]}
            /\ UNCHANGED abortedSessions
    /\ obs' = [obs EXCEPT ![s].aborted = FALSE,
                          ![s].skipped = cancelTimer(timers', s) = timers']
    /\ UNCHANGED <<config, heap, sessionStates, evals, world,
                   injectCounts, lastSnapshots, seenUserMsgs>>

\* event.type === "message.updated"
SimpleMessageUpdated(s, role, id) ==
    /\ IF role = "user" /\ (s \notin DOMAIN seenUserMsgs \/ seenUserMsgs[s] # id)
       THEN /\ seenUserMsgs' = Put(seenUserMsgs, s, id)
            /\ timers' = cancelTimer(timers, s)
            /\ abortedSessions' = abortedSessions \ {s}
            /\ injectCounts' = Put(injectCounts, s, 0)
       ELSE UNCHANGED <<seenUserMsgs, timers, abortedSessions, injectCounts>>
    /\ obs' = IF role = "user" /\ obs[s].last # id
              THEN [obs EXCEPT ![s].last = id,
                               ![s].sent = 0,
                               ![s].fresh = "message",
                               ![s].aborted = FALSE]
              ELSE obs
    /\ UNCHANGED <<config, heap, sessionStates, evals, world, lastSnapshots>>

\* event.type === "session.error"
SessionError(s, name) ==
    /\ IF name = "MessageAbortedError"
       THEN /\ abortedSessions' = abortedSessions \cup {s}
            /\ timers' = cancelTimer(timers, s)
            /\ obs' = [obs EXCEPT ![s].aborted = TRUE]
       ELSE UNCHANGED <<abortedSessions, timers, obs>>
    /\ UNCHANGED <<config, heap, sessionStates, evals, world,
                   injectCounts, lastSnapshots, seenUserMsgs>>

\* event.type === "session.deleted"
SimpleDeleted(s) ==
    /\ timers' = cancelTimer(timers, s)
    /\ injectCounts' = Remove(injectCounts, {s})
    /\ lastSnapshots' = Remove(lastSnapshots, {s})
    /\ seenUserMsgs' = Remove(seenUserMsgs, {s})
    /\ abortedSessions' = abortedSessions \ {s}
    /\ obs' = [obs EXCEPT ![s] = SimpleUnobserved]
    /\ UNCHANGED <<config, heap, sessionStates, evals, world>>

\* The setTimeout callback up to inject's first await.
\* At most cap calls are suspended at a time.
SimpleTimerFire(t, cap) ==
    /\ t \in timers
    /\ 0 >= t.due
    /\ BagCardinality(evals) < cap
    /\ timers' = timers \ {t}
    /\ evals' = IF ~config.enabled
                THEN evals
                ELSE evals (+) One([sid |-> t.sid, pc |-> "todos", count |-> 0,
                                    message |-> <<>>])
    /\ obs' = [obs EXCEPT ![t.sid].fresh =
                              IF @ = "message" /\ config.enabled THEN "started" ELSE @]
    /\ UNCHANGED <<config, simple, heap, sessionStates, world>>

\* client.session.todo answered: the code from there to the next await.
InjectTodos(e, answer) ==
    /\ BagIn(e, evals)
    /\ e.pc = "todos"
    /\ LET s == e.sid
           rest == evals (-) One(e)
           todos == IF answer = "list" THEN Todos(s) ELSE <<>>
           pending == filterPendingTodos(todos)
           currentSnapshot == snapshot(todos)
           changed == /\ s \in DOMAIN lastSnapshots
                      /\ lastSnapshots[s] # <<>>
                      /\ lastSnapshots[s] # currentSnapshot
           counts == IF changed THEN Put(injectCounts, s, 0) ELSE injectCounts
           count == Get0(counts, s)
           message == formatMessage(config.messageFormat, todos, pending)
           seen == IF answer = "list" THEN ShownList(obs, s, todos) ELSE obs
       IN  /\ IF answer = "throw"
              THEN /\ evals' = rest
                   /\ UNCHANGED <<injectCounts, lastSnapshots>>
              ELSE IF Len(pending) = 0
              THEN /\ evals' = rest
                   /\ injectCounts' = Remove(injectCounts, {s})
                   /\ lastSnapshots' = Remove(lastSnapshots, {s})
              ELSE /\ injectCounts' = counts
                   /\ lastSnapshots' = Put(lastSnapshots, s, currentSnapshot)
                   /\ evals' =
                          IF count >= config.maxAutoSubmitsPerTodo
                          THEN IF config.useToasts
                               THEN rest (+) One([e EXCEPT !.pc = "warning", !.count = count])
                               ELSE rest
                          ELSE rest (+) One([e EXCEPT !.pc = IF config.useToasts
                                                              THEN "toast"
                                                              ELSE "prompt",
                                                      !.count = count,
                                                      !.message = message])
           /\ obs' = [seen EXCEPT ![s].fresh = IF @ = "started" THEN "no" ELSE @]
    /\ UNCHANGED <<config, heap, sessionStates, timers, world,
                   seenUserMsgs, abortedSessions>>

\* client.tui.showToast (warning) answered or threw.
InjectWarning(e, ok) ==
    /\ BagIn(e, evals)
    /\ e.pc = "warning"
    /\ ok \in BOOLEAN
    /\ evals' = evals (-) One(e)
    /\ UNCHANGED <<config, simple, heap, sessionStates, timers, world, obs>>

\* client.tui.showToast (info) answered or threw: the prompt is sent.
InjectToast(e, ok) ==
    /\ BagIn(e, evals)
    /\ e.pc = "toast"
    /\ ok \in BOOLEAN
    /\ evals' = Swap(evals, e, [e EXCEPT !.pc = "prompt"])
    /\ UNCHANGED <<config, simple, heap, sessionStates, timers, world, obs>>

\* client.session.prompt answered or threw.
InjectPrompt(e, ok) ==
    /\ BagIn(e, evals)
    /\ e.pc = "prompt"
    /\ evals' = evals (-) One(e)
    /\ injectCounts' = IF ok THEN Put(injectCounts, e.sid, e.count + 1) ELSE injectCounts
    /\ obs' = IF ok
              THEN [obs EXCEPT \* sent is counted up to one above the cap
                               ![e.sid].sent = (IF @ > config.maxAutoSubmitsPerTodo THEN @ ELSE @ + 1),
                               ![e.sid].pausedAt =
                                   IF e.count + 1 >= config.maxAutoSubmitsPerTodo
                                   THEN <<Todos(e.sid)>>
                                   ELSE @]
              ELSE obs
    /\ UNCHANGED <<config, heap, sessionStates, timers, world,
                   lastSnapshots, seenUserMsgs, abortedSessions>>

\* Time passes by one unit; a due timer runs before the clock moves on.
SimpleTick ==
    /\ timers # {}
    /\ \A t \in timers : t.due > 0
    /\ timers' = {[t EXCEPT !.due = @ - 1] : t \in timers}
    /\ UNCHANGED <<config, simple, heap, sessionStates, evals, world, obs>>

SimpleSteps(cap, lists) ==
    \/ \E s \in Sessions, todos \in lists : SimpleTodoWrite(s, todos)
    \/ \E s \in Sessions : SimpleIdle(s)
    \/ \E s \in Sessions, role \in Roles, id \in MsgIds : SimpleMessageUpdated(s, role, id)
    \/ \E s \in Sessions, name \in {"MessageAbortedError", "ProviderAuthError"} :
           SessionError(s, name)
    \/ \E s \in Sessions : SimpleDeleted(s)
    \/ \E t \in timers : SimpleTimerFire(t, cap)
    \* What client.session.todo can answer: it throws, its data is no array
    \* (an error response), or its data is the list.
    \/ \E e \in BagToSet(evals), answer \in {"throw", "nodata", "list"} :
           InjectTodos(e, answer)
    \/ \E e \in BagToSet(evals), ok \in BOOLEAN : InjectWarning(e, ok)
    \/ \E e \in BagToSet(evals), ok \in BOOLEAN : InjectToast(e, ok)
    \/ \E e \in BagToSet(evals), ok \in BOOLEAN : InjectPrompt(e, ok)
    \/ SimpleTick

NextSimple == SimpleSteps(MaxInFlight, SimpleTodoLists)

\* One inject call at a time.
SpecSimple == InitSimple /\ [][NextSimple]_vars

NextSimpleOverlap == SimpleSteps(MaxOverlap, ShortTodoLists)

\* Inject calls may overlap; the todo lists are those of a single todo.
SpecSimpleOverlap == InitSimple /\ [][NextSimpleOverlap]_vars

-----------------------------------------------------------------------------
(* Vocabulary of the properties *)

\* The live timers of session s among ts.
TimersOf(ts, s) == {t \in ts : t.sid = s}

\* The number of suspended calls of session s in evs that wait at one of pcs.
NumAt(evs, s, pcs) ==
    LET es == {e \in BagToSet(evs) : e.sid = s /\ e.pc \in pcs}
    IN  BagCardinality([e \in es |-> evs[e]])

\* This step starts a delayed evaluation of s (a timer callback ran).
StartsEvaluation(s) ==
    NumAt(evals', s, {"messages"}) > NumAt(evals, s, {"messages"})

\* This step calls client.session.prompt with a reminder for s.
SendsReminder(s) ==
    NumAt(evals', s, {"prompt"}) > NumAt(evals, s, {"prompt"})

\* This step calls client.session.prompt with the paused notice for s.
SendsPaused(s) ==
    NumAt(evals', s, {"blocked"}) > NumAt(evals, s, {"blocked"})

\* The SessionState the map holds for s has the cached flag hasPending.
CachedPending(s) ==
    s \in DOMAIN sessionStates /\ heap[sessionStates[s]].hasPending

-----------------------------------------------------------------------------
(* C1: a session none of whose todos was ever shown to the engine with a   *)
(* trigger status (neither in a todo.updated event nor in a snapshot a     *)
(* delayed evaluation fetched) is never sent a prompt, whatever idle       *)
(* events and timer firings occur: every step that sends a reminder or a   *)
(* paused notice to s is taken when a pending todo of s has been shown.    *)
C1_NoPromptWithoutPending ==
    [][\A s \in Sessions :
          (SendsReminder(s) \/ SendsPaused(s)) => obs'[s].seenPending]_vars

\* Events of s were handled (its state exists), its list holds todos, and
\* none was ever shown as pending.
C1_Witness ==
    \E s \in Sessions :
        /\ ~obs[s].seenPending
        /\ s \in DOMAIN sessionStates
        /\ Todos(s) # <<>>
        /\ ~HasPending(Todos(s))

(* C2: in every reachable state a session has at most one live timer, and  *)
(* it is the one its SessionState holds the handle of.                     *)
C2_AtMostOneTimer ==
    \A s \in Sessions :
        /\ Cardinality(TimersOf(timers, s)) <= 1
        /\ \A t \in TimersOf(timers, s) :
               /\ s \in DOMAIN sessionStates
               /\ t.st = sessionStates[s]
               /\ heap[t.st].pendingInjectTimer = t.h

\* A timer is live on a recreated state: a suspended evaluation still holds
\* the destroyed one.
C2_Witness ==
    \E t \in timers : \E e \in BagToSet(evals) : e.sid = t.sid /\ e.st # t.st

(* C3: when session.idle events arrive for a session with hasPending, each *)
(* leaves exactly one live timer, the one it set (a new handle, due a full *)
(* idleDelayMs later), so of N events before the delay elapsed only the    *)
(* last one's timer exists; and an evaluation starts only by the single    *)
(* live timer of the session running at its due time, which consumes it.   *)
C3_LastIdleWins ==
    [][\A s \in Sessions :
          /\ (SessionIdle(s) /\ CachedPending(s)) =>
                 /\ TimersOf(timers', s) =
                        {[sid |-> s, h |-> FreshHandle(s),
                          st |-> sessionStates'[s], due |-> config.idleDelayMs]}
                 /\ \A t \in TimersOf(timers, s) : t.h # FreshHandle(s)
          /\ StartsEvaluation(s) =>
                 /\ \E t \in TimersOf(timers, s) : t.due = 0
                 /\ TimersOf(timers', s) = {}]_vars

\* The timer set by a second idle event (the first one's was still live) is
\* due.
C3_Witness ==
    \E t \in timers : t.h = 2 /\ t.due = 0

\* The SessionState the map holds for s has loop protection on.
LoopActive(s) ==
    s \in DOMAIN sessionStates /\ heap[sessionStates[s]].loopProtectionTriggered

\* This step is the evaluation e receiving the fetched todos and running on
\* to its next await or return.
Decides(e) == e.pc = "todos" /\ EvalTodos(e, TRUE)

\* This step makes an evaluation of s go on to send a reminder.
DecidesReminder(s) ==
    NumAt(evals', s, {"toast", "prompt"}) > NumAt(evals, s, {"toast", "prompt"})

\* The count the state of evaluation e holds for the first pending todo of
\* the fetched snapshot.
CountOf(e) ==
    Get0(heap[e.st].perTodoInjectCount,
         getTodoKey(filterPendingTodos(Todos(e.sid))[1]))

BelowCap(e) ==
    HasPending(Todos(e.sid)) /\ CountOf(e) < config.maxAutoSubmitsPerTodo

\* This step handles a message.updated event of s with the given role.
MessageOf(s, role) ==
    \E agent \in Agents, model \in Models : MessageUpdated(s, role, agent, model)

-----------------------------------------------------------------------------
(* C4: with a pending todo below the cap, an evaluation of a session       *)
(* injects if and only if the last evaluation of that session whose        *)
(* reminder was delivered read the clock cooldownMs or more before (or     *)
(* there was none): evaluations less than cooldownMs apart give one        *)
(* injection, evaluations cooldownMs or more apart give two.               *)
C4_CooldownBetweenEvaluations ==
    [][\A e \in BagToSet(evals) :
          (Decides(e) /\ BelowCap(e)) =>
              (DecidesReminder(e.sid) <=> obs[e.sid].lastEvalAt <= Epoch)]_vars

(* C5: any two reminder prompts sent to a session are at least cooldownMs  *)
(* apart: whenever a reminder is sent, the last one was sent cooldownMs or *)
(* more before (or there was none).                                        *)
C5_CooldownBetweenPrompts ==
    [][\A s \in Sessions :
          SendsReminder(s) => obs[s].lastReminderAt <= Epoch]_vars

(* C6: an evaluation that passes the cooldown sends a normal reminder      *)
(* while the first pending todo has fewer than maxAutoSubmitsPerTodo       *)
(* reminders, and sends the paused notice and turns loop protection on     *)
(* when it has that many; while loop protection is on for the session, no  *)
(* evaluation sends anything.                                              *)
C6_LoopProtection ==
    [][\A s \in Sessions :
          /\ \A e \in BagToSet(evals) :
                 (/\ e.sid = s
                  /\ Decides(e)
                  /\ HasPending(Todos(s))
                  /\ ~CooldownActive(heap[e.st], 0)) =>
                     IF BelowCap(e)
                     THEN DecidesReminder(s) /\ ~SendsPaused(s)
                     ELSE /\ SendsPaused(s)
                          /\ ~DecidesReminder(s)
                          /\ (s \in DOMAIN sessionStates /\ e.st = sessionStates[s])
                                 => LoopActive(s)'
          /\ LoopActive(s) => ~(SendsReminder(s) \/ SendsPaused(s))]_vars

FirstPendingBelowCap(s) ==
    /\ HasPending(Todos(s))
    /\ s \in DOMAIN sessionStates
    /\ Get0(heap[sessionStates[s]].perTodoInjectCount,
            getTodoKey(filterPendingTodos(Todos(s))[1])) < config.maxAutoSubmitsPerTodo

C8_UserMessageSilences ==
    [][\A s \in Sessions :
          /\ (MessageOf(s, "user") /\ TimersOf(timers, s) # {}) =>
                 TimersOf(timers', s) = {}
          /\ obs[s].quiet => ~(SendsReminder(s) \/ SendsPaused(s))]_vars

\* What the runtime knows of a timer: its session, handle and due time.
Schedule(ts) == {[sid |-> t.sid, h |-> t.h, due |-> t.due] : t \in ts}

C10_RemovedSessionStaysIdle ==
    [][\A s \in Sessions :
          /\ SessionDeleted(s) =>
                 TimersOf(timers', s) = {} /\ s \notin DOMAIN sessionStates'
          /\ (SessionIdle(s) /\ ~CachedPending(s)) => TimersOf(timers', s) = {}
          /\ (~CachedPending(s) /\ CachedPending(s)') =>
                 TodoUpdated(s) /\ HasPending(Todos(s))]_vars

\* The state of a session that had pending todos was destroyed and created
\* anew: it caches no pending todo although the list has one, and no timer
\* is set.
C10_Witness ==
    \E s \in Sessions :
        /\ s \in DOMAIN sessionStates
        /\ ~heap[sessionStates[s]].hasPending
        /\ HasPending(Todos(s))
        /\ obs[s].seenPending
        /\ TimersOf(timers, s) = {}

(* C11: the engine retains no state for a session without pending todos:   *)
(* in every state between two handler executions, every entry of           *)
(* sessionStates holds a state whose hasPending is true.                   *)
C11_NoStateWithoutPending ==
    \A s \in DOMAIN sessionStates : heap[sessionStates[s]].hasPending

\* The prompts of s that wait for their answer after this step.
Awaited(s) ==
    {e \in BagToSet(evals') : e.sid = s /\ e.pc \in {"prompt", "blocked"}}

(* C12: every reminder or paused notice sent for a session carries the     *)
(* agent and the model of the most recent user message of the session      *)
(* that named them (and not the default once there was one), also when     *)
(* the session's state was destroyed and recreated after that message.     *)
C12_PromptCarriesUserContext ==
    [][\A s \in Sessions :
          (SendsReminder(s) \/ SendsPaused(s)) =>
              \A e \in Awaited(s) :
                  e.agent = obs'[s].agent /\ e.model = obs'[s].model]_vars

\* The state the map holds for s, if any (a one-element or empty sequence).
StateOf(h, map, s) == IF s \in DOMAIN map THEN <<h[map[s]]>> ELSE <<>>

\* This step changes neither the state of s nor its timers.
LeavesState(s) ==
    /\ StateOf(heap', sessionStates', s) = StateOf(heap, sessionStates, s)
    /\ Schedule(TimersOf(timers', s)) = Schedule(TimersOf(timers, s))

\* This step ends an evaluation of s, and no evaluation of s moves on.
EndsEvaluation(s) ==
    /\ NumAt(evals', s, {"messages", "todos", "toast", "prompt", "blocked"})
           = NumAt(evals, s, {"messages", "todos", "toast", "prompt", "blocked"}) - 1
    /\ \A pc \in {"messages", "todos", "toast", "prompt", "blocked"} :
           NumAt(evals', s, {pc}) <= NumAt(evals, s, {pc})

\* This step takes an evaluation of s from the await at pc to the one at next.
MovesOn(s, pc, next) ==
    /\ NumAt(evals', s, {pc}) = NumAt(evals, s, {pc}) - 1
    /\ NumAt(evals', s, {next}) = NumAt(evals, s, {next}) + 1

\* The last messages the claim C18 names.
LastFromUser(m) == m.answer = "message" /\ m.role = "user"

LastAborted(m) ==
    /\ m.answer = "message"
    /\ m.role = "assistant"
    /\ (m.error = "MessageAbortedError" \/ m.finish = "abort")

LastGenerating(m) ==
    m.answer = "message" /\ m.role = "assistant" /\ ~m.completed

LastCompleted(m) ==
    /\ m.answer = "message"
    /\ m.role = "assistant"
    /\ m.completed
    /\ m.error = ""
    /\ m.finish = "stop"

(* C18: an evaluation that finds the last message of the session to be     *)
(* from the user, or an aborted assistant message (MessageAbortedError or  *)
(* finish = abort), or an assistant message without a completion time,     *)
(* ends without a prompt and leaves the state of the session (counters,    *)
(* loop protection, lastInjectAtMs) and its timers as they were; with a    *)
(* completed assistant message, or when the query throws, the evaluation   *)
(* goes on to fetch the todos.                                             *)
C18_LastMessageCheck ==
    [][\A e \in BagToSet(evals) : \A m \in MessageOutcomes :
          (e.pc = "messages" /\ EvalMessages(e, m)) =>
              /\ (LastFromUser(m) \/ LastAborted(m) \/ LastGenerating(m)) =>
                     /\ EndsEvaluation(e.sid)
                     /\ ~(SendsReminder(e.sid) \/ SendsPaused(e.sid))
                     /\ LeavesState(e.sid)
              /\ (LastCompleted(m) \/ m.answer = "throw") =>
                     /\ MovesOn(e.sid, "messages", "todos")
                     /\ LeavesState(e.sid)]_vars

\* An evaluation was ended by the last message of its session, whose state
\* holds a counter.
C18_Witness ==
    \E s \in Sessions :
        /\ obs[s].outcome = "skipped"
        /\ s \in DOMAIN sessionStates
        /\ heap[sessionStates[s]].perTodoInjectCount # EmptyMap

(* C13: a collaborator that throws during an evaluation is caught where it *)
(* is called and leaves the engine operational.  When the last-message     *)
(* query throws the evaluation goes on to fetch the todos; when the toast  *)
(* throws the reminder is sent all the same; when the todo query or a      *)
(* prompt throws the evaluation ends; and none of these steps changes the  *)
(* state or the timers of any session.  In every state, so also after a    *)
(* failure, a session.idle event of a session with hasPending sets its     *)
(* timer, and a timer that runs starts an evaluation unless loop           *)
(* protection is on.                                                       *)
C13_FailSoft ==
    [][/\ \A e \in BagToSet(evals) :
              /\ (e.pc = "messages"
                      /\ \E m \in MessageOutcomes : m.answer = "throw" /\ EvalMessages(e, m)) =>
                     /\ MovesOn(e.sid, "messages", "todos")
                     /\ \A s \in Sessions : LeavesState(s)
              /\ (e.pc = "todos" /\ EvalTodos(e, FALSE)) =>
                     /\ EndsEvaluation(e.sid)
                     /\ \A s \in Sessions : LeavesState(s)
              /\ (e.pc = "toast" /\ EvalToast(e, FALSE)) =>
                     /\ SendsReminder(e.sid)
                     /\ \A s \in Sessions : LeavesState(s)
              /\ (e.pc = "prompt" /\ EvalPrompt(e, "throw")) =>
                     /\ EndsEvaluation(e.sid)
                     /\ \A s \in Sessions : LeavesState(s)
              /\ (e.pc = "blocked" /\ EvalBlocked(e, FALSE)) =>
                     /\ EndsEvaluation(e.sid)
                     /\ \A s \in Sessions : LeavesState(s)
       /\ \A s \in Sessions :
              /\ (SessionIdle(s) /\ CachedPending(s)) =>
                     \E t \in timers' :
                         /\ TimersOf(timers', s) = {t}
                         /\ t.due = config.idleDelayMs
              /\ \A t \in TimersOf(timers, s) :
                     (TimerFire(t, MaxInFlight) /\ config.enabled /\ ~LoopActive(s)) =>
                         StartsEvaluation(s)]_vars

\* A collaborator threw, the evaluation is over, and the session still has
\* pending todos cached: its next session.idle event sets a timer.
C13_Witness ==
    \E s \in Sessions :
        /\ obs[s].outcome = "failed"
        /\ NumAt(evals, s, {"messages", "todos", "toast", "prompt", "blocked"}) = 0
        /\ CachedPending(s)
        /\ ~LoopActive(s)

\* The evaluations of s that are scheduled or run and have sent no prompt
\* yet: its live timers and its calls that wait before the prompt.
Pending(ts, evs, s) ==
    Cardinality(TimersOf(ts, s)) + NumAt(evs, s, {"messages", "todos", "toast"})

\* The prompts of s that wait for their answer.
Prompts(evs, s) == NumAt(evs, s, {"prompt", "blocked"})

\* Nothing is scheduled or runs for s.
Quiescent(s) ==
    /\ TimersOf(timers, s) = {}
    /\ NumAt(evals, s, {"messages", "todos", "toast", "prompt", "blocked"}) = 0

(* C15: each idle event causes at most one evaluation and each evaluation  *)
(* sends at most one prompt, so that a session is never sent more prompts  *)
(* than it had idle events.  The evaluations of a session that have not    *)
(* sent yet (timers and running calls) grow only by a session.idle event   *)
(* and then by one; an evaluation starts only by using up a timer; every   *)
(* step that sends a prompt sends one and uses up one such evaluation; and *)
(* while nothing is scheduled or runs for the session, nothing is sent     *)
(* and nothing but a session.idle event schedules anything, however much   *)
(* time passes.                                                            *)
C15_OnePromptPerIdle ==
    [][\A s \in Sessions :
          /\ Pending(timers', evals', s) > Pending(timers, evals, s) =>
                 /\ SessionIdle(s)
                 /\ Pending(timers', evals', s) = Pending(timers, evals, s) + 1
          /\ StartsEvaluation(s) =>
                 Cardinality(TimersOf(timers', s)) = Cardinality(TimersOf(timers, s)) - 1
          /\ Prompts(evals', s) > Prompts(evals, s) =>
                 /\ Prompts(evals', s) = Prompts(evals, s) + 1
                 /\ Pending(timers', evals', s) = Pending(timers, evals, s) - 1
          /\ Quiescent(s) =>
                 /\ ~(SendsReminder(s) \/ SendsPaused(s))
                 /\ Quiescent(s)' \/ SessionIdle(s)]_vars

\* A reminder was sent a time unit ago, its evaluation has completed, the
\* session still has pending todos cached and nothing is scheduled.
C15_Witness ==
    \E s \in Sessions :
        /\ obs[s].lastReminderAt = 0 - 1
        /\ Quiescent(s)
        /\ CachedPending(s)
        /\ ~LoopActive(s)

(* C19: when the reminder prompt returns a result flagged cancelled, the    *)
(* evaluation ends having written lastInjectAtMs = now (the clock value it  *)
(* read before sending) and nothing else: loop protection is not turned    *)
(* on and no timer is set.  A session for which nothing is scheduled or    *)
(* runs is sent nothing until a session.idle event of it is handled.       *)
C19_CancelledIsTerminal ==
    [][/\ \A e \in BagToSet(evals) :
              (e.pc = "prompt" /\ EvalPrompt(e, "cancelled")) =>
                  /\ EndsEvaluation(e.sid)
                  /\ ~(SendsReminder(e.sid) \/ SendsPaused(e.sid))
                  /\ Schedule(timers') = Schedule(timers)
                  /\ (e.sid \in DOMAIN sessionStates /\ sessionStates[e.sid] = e.st) =>
                         StateOf(heap', sessionStates', e.sid) =
                             <<[heap[e.st] EXCEPT !.lastInjectAtMs = e.now]>>
                  /\ (e.sid \notin DOMAIN sessionStates \/ sessionStates[e.sid] # e.st) =>
                         LeavesState(e.sid)
       /\ \A s \in Sessions :
              Quiescent(s) =>
                  /\ ~(SendsReminder(s) \/ SendsPaused(s))
                  /\ Quiescent(s)' \/ SessionIdle(s)]_vars

\* The user has just cancelled a reminder: the timestamp is recorded, loop
\* protection is off and nothing is scheduled for the session.
C19_Witness ==
    \E s \in Sessions :
        /\ obs[s].outcome = "cancelled"
        /\ Quiescent(s)
        /\ s \in DOMAIN sessionStates
        /\ heap[sessionStates[s]].lastInjectAtMs > Epoch
        /\ ~LoopActive(s)

(* C17: when the configuration has enabled = false, no evaluation ever     *)
(* gets to a collaborator call, so that no toast and no prompt is sent for *)
(* any session, and every state of a session has its counters empty, loop  *)
(* protection off and lastInjectAtMs at its initial value.                 *)
C17_DisabledIsSilent ==
    ~config.enabled =>
        /\ evals = EmptyBag
        /\ \A o \in DOMAIN heap :
               /\ heap[o].perTodoInjectCount = EmptyMap
               /\ ~heap[o].loopProtectionTriggered
               /\ heap[o].lastInjectAtMs = Epoch

\* The engine is disabled and the timer of a session with a pending todo
\* has just run.
C17_Witness ==
    /\ ~config.enabled
    /\ \E s \in Sessions :
           /\ obs[s].outcome = "disabled"
           /\ CachedPending(s)
           /\ HasPending(Todos(s))
           /\ TimersOf(timers, s) = {}

\* This step is the handling of an event of session s, the write of its todo
\* list, the callback of one of its timers, or the return of a collaborator
\* call to one of its evaluations.
StepOf(s) ==
    \/ \E todos \in PendingOrNone : TodoWrite(s, todos)
    \/ TodoUpdated(s)
    \/ SessionIdle(s)
    \/ \E role \in Roles : MessageUpdated(s, role, "undefined", "undefined")
    \/ MessagePartUpdated(s)
    \/ SessionDeleted(s)
    \/ \E t \in TimersOf(timers, s) : TimerFire(t, MaxInFlight)
    \/ \E e \in Awaited(s) :
           \/ \E lastMessage \in MessageOutcomes : EvalMessages(e, lastMessage)
           \/ \E ok \in BOOLEAN : EvalTodos(e, ok) \/ EvalBlocked(e, ok)
           \/ \E result \in {"ok", "cancelled", "throw"} : EvalPrompt(e, result)

\* The suspended calls of s among evs: where each waits, what it holds and
\* the state object it refers to (by content: object ids are names only).
CallsOf(h, evs, s) ==
    {[pc |-> e.pc, now |-> e.now, agent |-> e.agent, model |-> e.model,
      text |-> e.text, state |-> h[e.st], n |-> evs[e]] : e \in {f \in BagToSet(evs) : f.sid = s}}

CountFor(name, todos) ==
    IF name = "total" THEN Len(todos)
    ELSE IF name = "completed"
    THEN Cardinality({i \in DOMAIN todos : todos[i].status \in {"completed", "cancelled"}})
    ELSE Cardinality({i \in DOMAIN todos : todos[i].status \in config.triggerStatuses})

\* A known placeholder begins at chunk i of fmt.
PlaceholderAt(fmt, i) ==
    /\ i >= 1
    /\ i + 2 <= Len(fmt)
    /\ fmt[i] = "{" /\ fmt[i + 1] \in PlaceholderNames /\ fmt[i + 2] = "}"

\* fmt with every known placeholder replaced by its number at once, and
\* every other chunk kept.
Substituted(fmt, todos) ==
    LET piece(i) ==
            IF PlaceholderAt(fmt, i) THEN String(CountFor(fmt[i + 1], todos))
            ELSE IF PlaceholderAt(fmt, i - 1) \/ PlaceholderAt(fmt, i - 2) THEN <<>>
            ELSE <<fmt[i]>>
        upTo[i \in 0 .. Len(fmt)] == IF i = 0 THEN <<>> ELSE upTo[i - 1] \o piece(i)
    IN  upTo[Len(fmt)]

ExampleRendered == <<"1", "/", "3", ", ", "2", " left, ", "2", " pending">>

(* C20: the message sent is the template with every occurrence of         *)
(* {total} replaced by the number of todos, of {completed} by the number   *)
(* of todos completed or cancelled, of {pending} and of {remaining} by the *)
(* number of todos in a trigger status, and every other chunk, unknown     *)
(* placeholders included, as it was; the template                          *)
(* "{completed}/{total}, {remaining} left, {pending} pending" with one     *)
(* completed and two pending todos gives "1/3, 2 left, 2 pending".         *)
C20_MessageFormatting ==
    \A e \in BagToSet(evals) :
        LET todos == Todos(e.sid)
        IN  /\ e.message = Substituted(config.messageFormat, todos)
            /\ (/\ config.messageFormat = ExampleFormat
                 /\ Len(todos) = 3
                 /\ CountFor("completed", todos) = 1
                 /\ CountFor("pending", todos) = 2)
                    => e.message = ExampleRendered

\* The example template was rendered for three todos, one of them completed
\* and two pending.
C20_Witness ==
    \E e \in BagToSet(evals) :
        /\ config.messageFormat = ExampleFormat
        /\ Len(Todos(e.sid)) = 3
        /\ [i \in 1 .. 3 |-> Todos(e.sid)[i].status] = <<"completed", "pending", "pending">>
        /\ e.message = ExampleRendered

\* The engine knows of a pending todo of s, s went idle and its timer is set,
\* and loop protection is off.
Armed(s) ==
    /\ TimersOf(timers, s) # {}
    /\ CachedPending(s)
    /\ ~LoopActive(s)

\* A reminder prompt for s is on its way.
Prompted(s) == NumAt(evals, s, {"prompt"}) > 0

\* One of the premises fails for s: no pending todo is known any more (the
\* list changed, or the session was removed), loop protection is on, a user
\* message cancelled the timer, a collaborator threw, or the cooldown had not
\* elapsed when the evaluation read the clock.
Excused(s) ==
    \/ ~CachedPending(s)
    \/ LoopActive(s)
    \/ obs[s].quiet
    \/ obs[s].outcome \in {"failed", "unfetched", "deferred"}

\* The last message of s was from the user, aborted or still generating.
Busy(s) == obs[s].outcome = "skipped"

\* The progress line for the list todos, c of them completed.
ProgressLine(todos, c) ==
    <<"Status: ">> \o String(c) \o <<"/">> \o String(Len(todos)) \o <<" completed, ">>
        \o String(Cardinality({i \in DOMAIN todos : todos[i].status \in config.triggerStatuses}))
        \o <<" remaining.">>

\* The text reports the counts of the list todos.
ReportsCounts(text, todos) ==
    /\ text # <<>>
    /\ \E c \in 0 .. Len(todos) : text[Len(text)] = ProgressLine(todos, c)
    /\ todos = <<TodoA("pending"), TodoB("completed")>> =>
           text[Len(text)] = <<"Status: ", "1", "/", "2", " completed, ", "1", " remaining.">>

\* A step that sends a reminder for s sends one, which reports the counts
\* of the list the evaluation has just been answered.
\* The number of reminder prompts for s on their way with the given text.
RemindersWith(evs, s, text) ==
    LET es == {e \in BagToSet(evs) : e.sid = s /\ e.pc = "prompt" /\ e.text = text}
    IN  BagCardinality([e \in es |-> evs[e]])

OneReminderWithCounts(s) ==
    SendsReminder(s) =>
        /\ Prompts(evals', s) = Prompts(evals, s) + 1
        /\ \A e \in BagToSet(evals) :
               (e.sid = s /\ e.pc = "todos" /\ EvalTodos(e, TRUE)) =>
                   \A f \in Awaited(s) :
                       RemindersWith(evals', s, f.text) > RemindersWith(evals, s, f.text)
                           => ReportsCounts(f.text, Todos(s))

Matching(todos) == {i \in DOMAIN todos : todos[i].status \in config.triggerStatuses}

(* C21: the list filterPendingTodos returns holds exactly the todos whose  *)
(* status is in triggerStatuses: there is a strictly increasing map from   *)
(* its positions onto the matching positions of the input, so that each    *)
(* matching todo is there once and in the original order; it is empty when *)
(* nothing matches.                                                        *)
C21_FilterKeepsMatchingInOrder ==
    \A e \in BagToSet(evals) :
        LET todos == Todos(e.sid)
            out == e.pendingTodos
        IN  /\ Len(out) = Cardinality(Matching(todos))
            /\ \E at \in [DOMAIN out -> DOMAIN todos] :
                   /\ \A i \in DOMAIN out : out[i] = todos[at[i]]
                   /\ \A i \in DOMAIN out, j \in DOMAIN out : i < j => at[i] < at[j]
                   /\ {at[i] : i \in DOMAIN out} = Matching(todos)
            /\ Matching(todos) = {} => out = <<>>

\* A list of three todos was filtered, the first and the last of which
\* match and the second does not.
C21_Witness ==
    \E e \in BagToSet(evals) :
        /\ Len(Todos(e.sid)) = 3
        /\ Matching(Todos(e.sid)) = {1, 3}
        /\ e.pendingTodos = <<Todos(e.sid)[1], Todos(e.sid)[3]>>

\* The state getState(s) returns: the one in the map, or a new one.
StateOrNew(s) ==
    IF s \in DOMAIN sessionStates THEN heap[sessionStates[s]] ELSE createSessionState

\* Some pending todo of the list has fewer reminders in counts than the cap.
SomePendingBelowCap(todos, counts) ==
    \E i \in DOMAIN todos :
        /\ IsTrigger(todos[i])
        /\ Get0(counts, getTodoKey(todos[i])) < config.maxAutoSubmitsPerTodo

(* C27: after a todo.updated event of s was handled, if the list has no    *)
(* pending todo the map has no entry for s and s has no live timer;        *)
(* otherwise the entry has hasPending, its counters are those of the state *)
(* before whose key is the key of a pending todo of the list, with their   *)
(* counts, and loop protection is on exactly if it was on before and no    *)
(* pending todo has a count below the cap.                                 *)
C27_TodoUpdatedEffect ==
    [][\A s \in Sessions :
          TodoUpdated(s) =>
              LET todos == Todos(s)
                  before == StateOrNew(s)
              IN  IF ~HasPending(todos)
                  THEN /\ s \notin DOMAIN sessionStates'
                       /\ TimersOf(timers', s) = {}
                  ELSE /\ s \in DOMAIN sessionStates'
                       /\ LET after == heap'[sessionStates'[s]]
                          IN  /\ after.hasPending
                              /\ DOMAIN after.perTodoInjectCount
                                     = DOMAIN before.perTodoInjectCount \cap PendingKeys(todos)
                              /\ \A k \in DOMAIN after.perTodoInjectCount :
                                     after.perTodoInjectCount[k] = before.perTodoInjectCount[k]
                              /\ after.loopProtectionTriggered
                                     = (/\ before.loopProtectionTriggered
                                        /\ ~SomePendingBelowCap(todos, after.perTodoInjectCount))]_vars

\* A todo.updated event was handled since the paused notice, a counter was
\* kept for a pending todo, and loop protection stayed on.
C27_Witness ==
    \E s \in Sessions :
        /\ ~world[s].unsent
        /\ LoopActive(s)
        /\ obs[s].stuck = ""
        /\ heap[sessionStates[s]].perTodoInjectCount # EmptyMap
        /\ TimersOf(timers, s) # {}

(* C28: the step of an evaluation of s at which the todo query fails (it   *)
(* threw, or answered no list) ends the evaluation: it sends no prompt,    *)
(* starts no evaluation, sets no timer and changes no state; and nothing   *)
(* the evaluation did before (the call of getState, the last-message       *)
(* query) changed the state or the timers either.                          *)
C28_FailedFetchLeavesState ==
    [][\A e \in BagToSet(evals) :
          /\ (e.pc = "todos" /\ EvalTodos(e, FALSE)) =>
                 /\ EndsEvaluation(e.sid)
                 /\ ~(SendsReminder(e.sid) \/ SendsPaused(e.sid))
                 /\ ~StartsEvaluation(e.sid)
                 /\ \A s \in Sessions :
                        /\ LeavesState(s)
                        /\ (s \in DOMAIN sessionStates') = (s \in DOMAIN sessionStates)
          /\ (e.pc = "messages" /\ \E m \in MessageOutcomes : EvalMessages(e, m)) =>
                 \A s \in Sessions :
                     /\ LeavesState(s)
                     /\ (s \in DOMAIN sessionStates') = (s \in DOMAIN sessionStates)]_vars

\* The todo query of an evaluation has just failed; the session has its
\* entry with a counted reminder, hasPending and the time of the last
\* reminder.
C28_Witness ==
    \E s \in Sessions :
        /\ obs[s].outcome = "unfetched"
        /\ CachedPending(s)
        /\ heap[sessionStates[s]].perTodoInjectCount # EmptyMap
        /\ heap[sessionStates[s]].lastInjectAtMs > Epoch
        /\ NumAt(evals, s, {"messages", "todos", "toast", "prompt", "blocked"}) = 0

\* The evaluation e holds the state object the map has for its session.
HoldsEntry(e) ==
    e.sid \in DOMAIN sessionStates /\ sessionStates[e.sid] = e.st

\* This step keeps the entry of s, and in it the counters, loop protection
\* and the time of the last injection.
KeepsBudget(s) ==
    /\ (s \in DOMAIN sessionStates') = (s \in DOMAIN sessionStates)
    /\ s \in DOMAIN sessionStates =>
           LET before == heap[sessionStates[s]]
               after == heap'[sessionStates'[s]]
           IN  /\ after.perTodoInjectCount = before.perTodoInjectCount
               /\ after.loopProtectionTriggered = before.loopProtectionTriggered
               /\ after.lastInjectAtMs = before.lastInjectAtMs

(* C29: an evaluation that was answered a list with a pending todo while   *)
(* now - lastInjectAtMs < cooldownMs ends there: it sends nothing and      *)
(* leaves the counters, loop protection, the time of the last injection    *)
(* and the timers of its session as they were.                             *)
C29_CooldownAbortKeepsState ==
    [][\A e \in BagToSet(evals) :
          (/\ e.pc = "todos"
           /\ EvalTodos(e, TRUE)
           /\ HasPending(Todos(e.sid))
           /\ 0 - heap[e.st].lastInjectAtMs < config.cooldownMs) =>
              /\ EndsEvaluation(e.sid)
              /\ ~(SendsReminder(e.sid) \/ SendsPaused(e.sid))
              /\ KeepsBudget(e.sid)
              /\ Schedule(TimersOf(timers', e.sid)) = Schedule(TimersOf(timers, e.sid))]_vars

\* An evaluation of a session with a counted reminder has just been
\* stopped by the cooldown.
C29_Witness ==
    \E s \in Sessions :
        /\ obs[s].outcome = "deferred"
        /\ CachedPending(s)
        /\ heap[sessionStates[s]].perTodoInjectCount # EmptyMap
        /\ 0 - heap[sessionStates[s]].lastInjectAtMs < config.cooldownMs

(* C30: the step that sends the paused notice changes the entry of its     *)
(* session in loop protection only, which it sets; the step at which the   *)
(* notice is delivered or fails changes nothing; so no counter is          *)
(* incremented and the time of the last injection is not updated.          *)
C30_PausedNoticeOnlySetsFlag ==
    [][\A e \in BagToSet(evals) :
          /\ (e.pc = "todos" /\ EvalTodos(e, TRUE) /\ SendsPaused(e.sid)) =>
                 /\ ~SendsReminder(e.sid)
                 /\ Schedule(TimersOf(timers', e.sid)) = Schedule(TimersOf(timers, e.sid))
                 /\ IF HoldsEntry(e)
                    THEN StateOf(heap', sessionStates', e.sid)
                             = <<[heap[e.st] EXCEPT !.loopProtectionTriggered = TRUE]>>
                    ELSE LeavesState(e.sid)
          /\ (e.pc = "blocked" /\ \E ok \in BOOLEAN : EvalBlocked(e, ok)) =>
                 /\ EndsEvaluation(e.sid)
                 /\ ~(SendsReminder(e.sid) \/ SendsPaused(e.sid))
                 /\ LeavesState(e.sid)]_vars

\* The paused notice for the todo a could not be delivered: loop protection
\* is on, the counter of a is at the cap.
C30_Witness ==
    \E s \in Sessions :
        /\ obs[s].outcome = "failed"
        /\ obs[s].stuck = "a"
        /\ LoopActive(s)
        /\ Get0(heap[sessionStates[s]].perTodoInjectCount, "a") = config.maxAutoSubmitsPerTodo
        /\ NumAt(evals, s, {"messages", "todos", "toast", "prompt", "blocked"}) = 0

\* This step starts a delayed evaluation of s in src/src/plugin.ts.
PluginStarts(s) ==
    NumAt(evals', s, {"todos"}) > NumAt(evals, s, {"todos"})

(* C26: in src/src/plugin.ts a message.part.updated event of a session    *)
(* whose idle event scheduled an injection that is not yet due cancels    *)
(* it: the step leaves the session no timer, and until an injection is    *)
(* scheduled again no evaluation of the session starts and no prompt is   *)
(* sent that was not already on its way.                                  *)
C26_PartUpdateCancelsInjection ==
    [][\A s \in Sessions :
          /\ (TimersOf(timers, s) # {} /\ PluginPartUpdated(s)) =>
                 /\ TimersOf(timers', s) = {}
                 /\ obs'[s].quiet
                 /\ ~(SendsReminder(s) \/ SendsPaused(s))
          /\ obs[s].quiet =>
                 /\ ~PluginStarts(s)
                 /\ (NumAt(evals, s, {"todos"}) = 0 =>
                         ~(SendsReminder(s) \/ SendsPaused(s)))]_vars

\* A part update has just cancelled the injection the idle event of a
\* session with a pending todo had scheduled.
C26_Witness ==
    \E s \in Sessions :
        /\ obs[s].outcome = "interrupted"
        /\ obs[s].quiet
        /\ CachedPending(s)
        /\ HasPending(Todos(s))
        /\ TimersOf(timers, s) = {}
        /\ evals = EmptyBag

-----------------------------------------------------------------------------
(* Properties of the snapshot-counter engine *)

\* Reminders are paused for s: its inject counter has reached the cap.
Paused(s) == Get0(injectCounts, s) >= config.maxAutoSubmitsPerTodo

\* A todo of the list old has another status in the list new.
StatusChanged(old, new) ==
    \E i \in DOMAIN old, j \in DOMAIN new :
        old[i].id = new[j].id /\ old[i].status # new[j].status

\* This step of inject decides to send the reminder of s (after the info
\* toast, if toasts are configured).
DecidesToSend(s) ==
    NumAt(evals', s, {"toast", "prompt"}) > NumAt(evals, s, {"toast", "prompt"})

(* C22: between two consecutive resets of the inject counter of a session *)
(* (an evaluation is shown a changed snapshot, a new user message,        *)
(* session.deleted) at most maxAutoSubmitsPerTodo reminder prompts are    *)
(* delivered, however idle events, timer callbacks and the answers of     *)
(* the collaborators interleave.                                          *)
C22_CapOnReminders ==
    \A s \in Sessions : obs[s].sent <= config.maxAutoSubmitsPerTodo

(* C23: when the reminders of a session are paused and the status of one *)
(* of its todos has changed since they were paused, some todo still       *)
(* pending, the next evaluation that is shown the list resets the         *)
(* counter to zero and sends a reminder.                                  *)
C23_ResumeOnStatusChange ==
    [][\A e \in BagToSet(evals) :
          LET s == e.sid
          IN  (/\ e.pc = "todos"
               /\ InjectTodos(e, "list")
               /\ Paused(s)
               /\ obs[s].pausedAt # <<>>
               /\ StatusChanged(obs[s].pausedAt[1], Todos(s))
               /\ HasPending(Todos(s)))
              => (DecidesToSend(s) /\ injectCounts'[s] = 0)]_vars

(* C24: a message.updated event of a user message whose id the session   *)
(* has not seen cancels the pending timer of the session, clears its      *)
(* abort flag and sets its inject counter to zero, so that the next       *)
(* evaluation an idle event starts, if it is shown a pending todo, sends  *)
(* a reminder even if reminders were paused (unless the evaluations that  *)
(* were on their way have delivered maxAutoSubmitsPerTodo reminders       *)
(* since); an event that repeats the id changes nothing.                  *)
C24_UserMessageResets ==
    [][\A s \in Sessions :
          /\ \A id \in MsgIds :
                 SimpleMessageUpdated(s, "user", id) =>
                     IF obs[s].last # id
                     THEN /\ TimersOf(timers', s) = {}
                          /\ s \notin abortedSessions'
                          /\ injectCounts'[s] = 0
                     ELSE UNCHANGED <<timers, evals, simple>>
          /\ \A e \in BagToSet(evals) :
                 (/\ e.sid = s
                  /\ e.pc = "todos"
                  /\ InjectTodos(e, "list")
                  /\ obs[s].fresh = "started"
                  /\ obs[s].sent < config.maxAutoSubmitsPerTodo
                  /\ HasPending(Todos(s)))
                 => DecidesToSend(s)]_vars

-----------------------------------------------------------------------------
(* Properties of the per-todo engine: loop protection and the counters *)

(* C31: while a todo that a paused notice named stays pending (every list  *)
(* the engine was shown since the notice has it pending, and the state of  *)
(* the session was not removed), no prompt is sent to the session: no      *)
(* second paused notice and no reminder, whatever todo.updated and         *)
(* session.idle events are handled meanwhile.                              *)
C31_OnePausedNoticePerStuckTodo ==
    [][\A s \in Sessions :
          (obs[s].noticed # "" /\ obs[s].noticed \in PendingKeys(Todos(s))) =>
              ~(SendsReminder(s) \/ SendsPaused(s))]_vars

\* The keys of the counters the map's state of s holds (none without state).
CountedKeys(h, map, s) ==
    IF s \in DOMAIN map THEN DOMAIN h[map[s]].perTodoInjectCount ELSE {}

(* C32: after the engine was shown a list of s (the step that handles a    *)
(* todo.updated event of s, or the step at which an evaluation of s is     *)
(* answered the fetched list), the state of s has no counter for a todo    *)
(* that is not pending in that list.                                       *)
C32_CountersOnlyForPending ==
    [][\A s \in Sessions :
          (\/ TodoUpdated(s)
           \/ \E e \in BagToSet(evals) : e.sid = s /\ Decides(e)) =>
              CountedKeys(heap', sessionStates', s) \subseteq PendingKeys(Todos(s))]_vars

(* C33: the counter of a todo counts only the reminders attributed to it   *)
(* since its status last changed (also from one trigger status to          *)
(* another): in every state the count the session holds for the todo a is  *)
(* at most the number of reminders attributed to a since the engine was    *)
(* last shown a list in which the status of a had changed, so that a       *)
(* paused notice names a only after maxAutoSubmitsPerTodo such reminders.  *)
C33_CountSinceStatusChange ==
    /\ [](\A s \in Sessions :
             Get0(StateOrNew(s).perTodoInjectCount, "a") <= obs[s].counted)
    /\ [][\A s \in Sessions :
             (SendsPaused(s) /\ obs'[s].stuck = "a") =>
                 obs'[s].counted >= config.maxAutoSubmitsPerTodo]_vars

(* C34: at most one delayed evaluation of a session is in progress at a    *)
(* time: in every state at most one maybeInject call of the session is     *)
(* suspended at an await (last-message query, todo query, toast, prompt).  *)
C34_OneEvaluationAtATime ==
    \A s \in Sessions :
        NumAt(evals, s, {"messages", "todos", "toast", "prompt", "blocked"}) <= 1

(* C35: every counter of every SessionState is at least 1 and at most      *)
(* maxAutoSubmitsPerTodo, also while evaluations of the session overlap;   *)
(* the step at which an evaluation goes on to send a reminder adds one to  *)
(* the counter of the first pending todo of the fetched list and leaves    *)
(* the other counters alone; and no other step adds to a counter or sets   *)
(* one (the other steps keep the counters or remove some).                 *)
C35_CountersWithinCap ==
    /\ [](\A o \in DOMAIN heap :
             \A k \in DOMAIN heap[o].perTodoInjectCount :
                 /\ heap[o].perTodoInjectCount[k] >= 1
                 /\ heap[o].perTodoInjectCount[k] <= config.maxAutoSubmitsPerTodo)
    /\ [][\A s \in Sessions :
             LET before == StateOrNew(s).perTodoInjectCount
                 after == StateOrNew(s)'.perTodoInjectCount
                 key == getTodoKey(filterPendingTodos(Todos(s))[1])
             IN  /\ \A e \in BagToSet(evals) :
                        (e.sid = s /\ Decides(e) /\ DecidesReminder(s) /\ HoldsEntry(e)) =>
                            after = Put(before, key, Get0(before, key) + 1)
                 /\ \/ /\ DOMAIN after \subseteq DOMAIN before
                       /\ \A k \in DOMAIN after : after[k] = before[k]
                    \/ /\ DecidesReminder(s)
                       /\ after = Put(before, key, Get0(before, key) + 1)]_vars

\* Two evaluations of a session are on their way to send a reminder at the
\* same time, and the counter of the todo a is at the cap.
C35_Witness ==
    \E s \in Sessions :
        /\ NumAt(evals, s, {"toast", "prompt"}) = 2
        /\ Get0(StateOrNew(s).perTodoInjectCount, "a") = config.maxAutoSubmitsPerTodo

(* C36: after a session.deleted event of s was handled, and until a        *)
(* session.idle event of s sets a timer, no toast is shown and no prompt   *)
(* (reminder or paused notice) is sent for s; so an evaluation that was    *)
(* suspended at an await when the event was handled sends nothing when it  *)
(* is resumed.                                                             *)
C36_RemovedSessionGetsNothing ==
    [][\A s \in Sessions :
          obs[s].removed =>
              /\ ~(SendsReminder(s) \/ SendsPaused(s))
              /\ NumAt(evals', s, {"toast"}) <= NumAt(evals, s, {"toast"})]_vars

(* C37: every prompt sent for s comes after a session.idle event of s with *)
(* no user message of s handled between that event and the send: while a   *)
(* user message of s was handled and no session.idle event of s since, no  *)
(* step sends a reminder or a paused notice for s, so that a user message  *)
(* also stops an evaluation that is suspended at an await.                 *)
C37_NoPromptAfterUserMessage ==
    [][\A s \in Sessions :
          obs[s].spoken => ~(SendsReminder(s) \/ SendsPaused(s))]_vars

(* C38: the counter counts attempts, not deliveries.  The step at which an *)
(* evaluation goes on to send a reminder adds one to the counter of the    *)
(* first pending todo, before the toast and the prompt, and leaves the     *)
(* time of the last injection as it was; the toast step changes nothing;   *)
(* a prompt that threw changes nothing either (the count is not rolled     *)
(* back, the time of the last injection is not updated), while a prompt    *)
(* that did not throw sets the time of the last injection to the clock     *)
(* value the evaluation had read and keeps the counters; and an            *)
(* evaluation that finds the counter of the first pending todo at the cap  *)
(* sends the paused notice, however many of the prompts were delivered.    *)
C38_CountsAttempts ==
    [][\A e \in BagToSet(evals) :
          LET s == e.sid
              before == StateOrNew(s)
              after == StateOrNew(s)'
              key == getTodoKey(filterPendingTodos(Todos(s))[1])
          IN  /\ (Decides(e) /\ DecidesReminder(s) /\ HoldsEntry(e)) =>
                     /\ after.perTodoInjectCount
                            = Put(before.perTodoInjectCount, key,
                                  Get0(before.perTodoInjectCount, key) + 1)
                     /\ after.lastInjectAtMs = before.lastInjectAtMs
              /\ (e.pc = "toast" /\ \E ok \in BOOLEAN : EvalToast(e, ok)) =>
                     LeavesState(s)
              /\ (e.pc = "prompt" /\ EvalPrompt(e, "throw")) =>
                     LeavesState(s) /\ EndsEvaluation(s)
              /\ (/\ e.pc = "prompt"
                  /\ EvalPrompt(e, "ok") \/ EvalPrompt(e, "cancelled")
                  /\ HoldsEntry(e)) =>
                     /\ after.lastInjectAtMs = e.now
                     /\ after.perTodoInjectCount = before.perTodoInjectCount
              /\ (/\ Decides(e)
                  /\ HasPending(Todos(s))
                  /\ ~CooldownActive(heap[e.st], 0)
                  /\ ~BelowCap(e)) =>
                     SendsPaused(s) /\ ~DecidesReminder(s)]_vars

\* The reminder prompt sent at this instant threw: the attempt brought the
\* counter of a to the cap, and no injection is recorded for this instant
\* (nor for any instant less than cooldownMs ago).
C38_Witness ==
    \E s \in Sessions :
        /\ obs[s].outcome = "failed"
        /\ obs[s].lastEvalAt = Epoch
        /\ obs[s].lastReminderAt = Epoch
        /\ Quiescent(s)
        /\ CachedPending(s)
        /\ heap[sessionStates[s]].lastInjectAtMs = Epoch
        /\ Get0(heap[sessionStates[s]].perTodoInjectCount, "a") = config.maxAutoSubmitsPerTodo

-----------------------------------------------------------------------------
(* Properties of the engine of src/src/plugin.ts: its two triggers *)

(* C40: in src/src/plugin.ts, however session.idle events and calls of the *)
(* experimental.text.complete hook of a session interleave, the session    *)
(* has at most one live timer, the one whose handle its state holds.  A    *)
(* session.idle event of a session whose hasPending is set leaves it the   *)
(* one timer due idleDelayMs later; a call of the hook with the plugin     *)
(* enabled and hasPending set leaves it the one timer due idleDelayMs +    *)
(* 500 ms later; whatever was scheduled before is cancelled.  An           *)
(* evaluation starts only by consuming that one timer when it is due, so   *)
(* the triggers of a burst lead to one evaluation, the one scheduled last. *)
(* A call of the hook with the plugin disabled, or for a session whose     *)
(* hasPending is false, leaves the timers as they were.                    *)
C40_TriggersShareOneTimer ==
    [][\A s \in Sessions :
          /\ Cardinality(TimersOf(timers', s)) <= 1
          /\ \A t \in TimersOf(timers', s) :
                 /\ s \in DOMAIN sessionStates'
                 /\ t.st = sessionStates'[s]
                 /\ heap'[t.st].pendingInjectTimer = t.h
          /\ (SessionIdle(s) /\ CachedPending(s)) =>
                 {t.due : t \in TimersOf(timers', s)} = {config.idleDelayMs}
          /\ (TextComplete(s) /\ config.enabled /\ CachedPending(s)) =>
                 {t.due : t \in TimersOf(timers', s)}
                     = {config.idleDelayMs + FallbackExtraMs}
          /\ (TextComplete(s) /\ ~(config.enabled /\ CachedPending(s))) =>
                 /\ timers' = timers
                 /\ ~PluginStarts(s)
          /\ PluginStarts(s) =>
                 /\ \E t \in TimersOf(timers, s) : t.due <= 0
                 /\ TimersOf(timers', s) = {}
                 /\ NumAt(evals', s, {"todos"}) = NumAt(evals, s, {"todos"}) + 1]_vars

\* A session.idle event and then a call of the hook have each set a timer
\* while the one set before was live: the one live timer is that of the
\* hook, due idleDelayMs + 500 ms from now.
C40_Witness ==
    \E s \in Sessions :
        /\ obs[s].burst = {"idle", "text"}
        /\ config.enabled
        /\ CachedPending(s)
        /\ \E t \in timers :
               /\ TimersOf(timers, s) = {t}
               /\ t.due = config.idleDelayMs + FallbackExtraMs
               /\ heap[sessionStates[s]].pendingInjectTimer = t.h

====
